---------------------------- MODULE Spec2Model ----------------------------
(***************************************************************************)
(* Manifest capture and validation scripts of process_triage:              *)
(*   scripts/fixture_capture.py                                            *)
(*   scripts/validate_fixture_manifest.py                                  *)
(*   scripts/validate_e2e_manifest.py                                      *)
(*   scripts/validate_capabilities_manifest.py                             *)
(*                                                                         *)
(* Texts are sequences of atoms.  An atom is a maximal piece of text of    *)
(* one kind: k = "hex" is a run of n lowercase hexadecimal digits, "hexU"  *)
(* a run of n hexadecimal digits with an uppercase letter in it, "/" "-"   *)
(* " " "<" ">" "." are that one character, and every other k is that       *)
(* literal word: word characters only, at least one of them no hex digit,  *)
(* so that a hex run touching it has no word boundary on that side.        *)
(* k = "num" is the decimal numeral of n; it occurs in version texts only. *)
(* A "hex" atom of 64 digits with of # "" is the SHA-256 digest of `of`.   *)
(***************************************************************************)
EXTENDS Integers, Sequences, FiniteSets, TLC

VARIABLES
    pc,        \* the last step taken
    files,     \* the file system: path -> [exists, data]
    loaded,    \* the manifest document load_json returned
    mpath,     \* the path of the manifest file
    out,       \* the result of the last run: [status, errors]
    text,      \* a provenance string (an entry of source.command / source.paths)
    prev,      \* the value the last transformation was applied to
    hist,      \* the edits made to the manifest document since it was sealed
    exit       \* how the process of the last run ended: [code, stdout]

vars == <<pc, files, loaded, mpath, out, text, prev, hist, exit>>

----------------------------------------------------------------------------
(* Texts *)

Atom(k, n) == [k |-> k, n |-> n, of |-> ""]
W(word) == <<Atom(word, 0)>>
Hx(n) == <<Atom("hex", n)>>
HxU(n) == <<Atom("hexU", n)>>

Punct == {"/", "-", " ", "<", ">", "."}

IsHexAtom(a) == a.k \in {"hex", "hexU"}
IsWordAtom(a) == a.k \notin Punct

\* Adjacent hex runs are one run.
RECURSIVE Norm(_)
Norm(s) ==
    IF Len(s) < 2 THEN s
    ELSE IF IsHexAtom(s[1]) /\ IsHexAtom(s[2])
         THEN Norm(<<Atom(IF s[1].k = "hex" /\ s[2].k = "hex" THEN "hex" ELSE "hexU",
                          s[1].n + s[2].n)>> \o SubSeq(s, 3, Len(s)))
         ELSE <<s[1]>> \o Norm(Tail(s))

RECURSIVE Render(_)
Render(s) ==
    IF s = <<>> THEN ""
    ELSE (IF IsHexAtom(s[1])
          THEN (IF s[1].of # "" THEN "sha256(" \o s[1].of \o ")"
                ELSE s[1].k \o ToString(s[1].n))
          ELSE IF s[1].k = "num" THEN ToString(s[1].n)
          ELSE s[1].k) \o Render(Tail(s))

----------------------------------------------------------------------------
(* Regular expressions of the scripts, on texts *)

UuidGroups == <<8, 4, 4, 4, 12>>
HexIdMin == 32
Sha256Len == 64

\* \b between position i-1 and i of s (i in 1..Len(s)+1), one side being a hex run.
BoundaryBefore(s, i) == i = 1 \/ ~IsWordAtom(s[i - 1])
BoundaryAfter(s, j) == j = Len(s) \/ ~IsWordAtom(s[j + 1])

\* HOME_RE = /(Users|home)/[^/]+ matches at atom i
HomeAt(s, i) ==
    /\ i + 3 <= Len(s)
    /\ s[i].k = "/"
    /\ s[i + 1].k \in {"Users", "home"}
    /\ s[i + 2].k = "/"
    /\ s[i + 3].k # "/"

\* the last atom of the greedy [^/]+ that starts at atom i
RECURSIVE RunEnd(_, _)
RunEnd(s, i) == IF i < Len(s) /\ s[i + 1].k # "/" THEN RunEnd(s, i + 1) ELSE i

\* UUID_RE = \b h{8}-h{4}-h{4}-h{4}-h{12} \b, IGNORECASE, matches at atom i
UuidAt(s, i) ==
    /\ i + 8 <= Len(s)
    /\ \A g \in 1..5 : IsHexAtom(s[i + 2 * (g - 1)]) /\ s[i + 2 * (g - 1)].n = UuidGroups[g]
    /\ \A g \in 1..4 : s[i + 2 * g - 1].k = "-"
    /\ BoundaryBefore(s, i)
    /\ BoundaryAfter(s, i + 8)

\* HEX_RE = \b h{32,} \b, IGNORECASE, matches at atom i
HexAt(s, i) ==
    /\ i <= Len(s)
    /\ IsHexAtom(s[i])
    /\ s[i].n >= HexIdMin
    /\ BoundaryBefore(s, i)
    /\ BoundaryAfter(s, i)

HOME_RE_search(s) == \E i \in 1..Len(s) : HomeAt(s, i)
UUID_RE_search(s) == \E i \in 1..Len(s) : UuidAt(s, i)
HEX_RE_search(s) == \E i \in 1..Len(s) : HexAt(s, i)

\* SHA256_RE = ^[a-f0-9]{64}$
SHA256_RE_match(s) == Len(s) = 1 /\ s[1].k = "hex" /\ s[1].n = Sha256Len

HomePlaceholder == <<Atom("/", 0), Atom("home", 0), Atom("/", 0), Atom("USER", 0)>>
UuidPlaceholder == <<Atom("<", 0), Atom("UUID", 0), Atom(">", 0)>>
HexPlaceholder == <<Atom("<", 0), Atom("HEX", 0), Atom(">", 0)>>

RECURSIVE HomeSub(_, _)
HomeSub(s, i) ==
    IF i > Len(s) THEN <<>>
    ELSE IF HomeAt(s, i) THEN HomePlaceholder \o HomeSub(s, RunEnd(s, i + 3) + 1)
    ELSE <<s[i]>> \o HomeSub(s, i + 1)

RECURSIVE UuidSub(_, _)
UuidSub(s, i) ==
    IF i > Len(s) THEN <<>>
    ELSE IF UuidAt(s, i) THEN UuidPlaceholder \o UuidSub(s, i + 9)
    ELSE <<s[i]>> \o UuidSub(s, i + 1)

RECURSIVE HexSub(_, _)
HexSub(s, i) ==
    IF i > Len(s) THEN <<>>
    ELSE IF HexAt(s, i) THEN HexPlaceholder \o HexSub(s, i + 1)
    ELSE <<s[i]>> \o HexSub(s, i + 1)

redact_path(value) == HomeSub(value, 1)

\* redact_id with its second substitution left out
redact_id_uuid_only(value) == UuidSub(value, 1)

redact_id(value) == HexSub(UuidSub(value, 1), 1)

redact_cmdline(value) == redact_id(redact_path(value))

redact_values(values) == [i \in DOMAIN values |-> redact_cmdline(values[i])]

\* check_redaction(value, label, errors): the errors it appends
check_redaction(value, label) ==
    (IF HOME_RE_search(value) THEN <<label \o " contains unredacted home path">> ELSE <<>>)
    \o (IF UUID_RE_search(value) THEN <<label \o " contains unredacted UUID">> ELSE <<>>)
    \o (IF HEX_RE_search(value) THEN <<label \o " contains unredacted hex id">> ELSE <<>>)

----------------------------------------------------------------------------
(* JSON values, as json.load builds them: a dict keeps its insertion order *)

JNull == [t |-> "null", s |-> <<>>, n |-> 0, c |-> <<>>]
JBool(b) == [t |-> "bool", s |-> <<>>, n |-> IF b THEN 1 ELSE 0, c |-> <<>>]
JInt(i) == [t |-> "int", s |-> <<>>, n |-> i, c |-> <<>>]
JStr(s) == [t |-> "str", s |-> s, n |-> 0, c |-> <<>>]
JList(vs) == [t |-> "list", s |-> <<>>, n |-> 0,
              c |-> [i \in DOMAIN vs |-> [k |-> "", v |-> vs[i]]]]
\* kvs: a sequence of <<key, value>>
JDict(kvs) == [t |-> "dict", s |-> <<>>, n |-> 0,
               c |-> [i \in DOMAIN kvs |-> [k |-> kvs[i][1], v |-> kvs[i][2]]]]

isinstance_str(v) == v.t = "str"
isinstance_int(v) == v.t \in {"int", "bool"}     \* bool is a subclass of int
isinstance_list(v) == v.t = "list"
isinstance_dict(v) == v.t = "dict"
Unhashable(v) == v.t \in {"list", "dict"}
\* bool(v)
Truthy(v) ==
    CASE v.t = "null" -> FALSE
      [] v.t \in {"bool", "int"} -> v.n # 0
      [] v.t = "str" -> v.s # <<>>
      [] OTHER -> v.c # <<>>

\* key in d
Has(d, key) == \E i \in DOMAIN d.c : d.c[i].k = key
\* d.get(key)
Get(d, key) ==
    IF Has(d, key) THEN d.c[CHOOSE i \in DOMAIN d.c : d.c[i].k = key].v ELSE JNull
Items(v) == [i \in DOMAIN v.c |-> v.c[i].v]

RemoveAt(q, i) == SubSeq(q, 1, i - 1) \o SubSeq(q, i + 1, Len(q))
\* d.pop(key, None)
Pop(d, key) ==
    IF Has(d, key)
    THEN [d EXCEPT !.c = RemoveAt(d.c, CHOOSE i \in DOMAIN d.c : d.c[i].k = key)]
    ELSE d
\* d[key] = value
Put(d, key, value) ==
    IF Has(d, key)
    THEN [d EXCEPT !.c[CHOOSE i \in DOMAIN d.c : d.c[i].k = key].v = value]
    ELSE [d EXCEPT !.c = Append(d.c, [k |-> key, v |-> value])]

\* The keys of the documents, in the order Python compares strings.
KeyOrder ==
    <<"", "arch", "argv", "artifacts", "bytes", "capture_time", "ci_provider",
      "command", "commands", "config_dir", "data_dir", "description",
      "discovered_at", "domain", "duration_ms", "env", "exit_code", "extra",
      "family", "fixture_capture", "fixture_id", "home", "kernel", "kind", "logs",
      "manifest_sha256", "metrics", "notes", "origin", "os", "path", "paths", "pt",
      "redaction_profile", "run_id", "schema_version", "sha256", "source", "suite",
      "test_id", "timestamp", "tool_versions", "tools", "uid", "user", "username">>

Rank(key) == CHOOSE i \in DOMAIN KeyOrder : KeyOrder[i] = key

\* sort_keys=True
RECURSIVE SortKeys(_)
SortKeys(c) ==
    IF c = <<>> THEN <<>>
    ELSE LET i == CHOOSE i \in DOMAIN c : \A j \in DOMAIN c : Rank(c[i].k) <= Rank(c[j].k)
         IN <<c[i]>> \o SortKeys(RemoveAt(c, i))

\* sort_keys=False: members in insertion order
InsertionOrder(c) == c

\* The order in which json.dumps(..., sort_keys=True) emits the members of a dict.
MemberOrder(c) == SortKeys(c)

----------------------------------------------------------------------------
(* JSON text and file contents: sequences of tokens.  A file that is not   *)
(* JSON holds "byte" tokens; "nl" ends a line.  Whitespace between JSON    *)
(* tokens is left out.                                                     *)

Tok(tok) == [tok |-> tok, s |-> <<>>, n |-> 0]
StrTok(s) == [tok |-> "str", s |-> s, n |-> 0]
IntTok(n) == [tok |-> "int", s |-> <<>>, n |-> n]
Byte(n) == [tok |-> "byte", s |-> <<>>, n |-> n]

\* json.dumps(v, ...): sorted says whether sort_keys=True
RECURSIVE Dumps(_, _)
RECURSIVE DumpsMembers(_, _, _)
DumpsMembers(c, isDict, sorted) ==
    IF c = <<>> THEN <<>>
    ELSE (IF isDict THEN <<StrTok(W(c[1].k)), Tok(":")>> ELSE <<>>)
         \o Dumps(c[1].v, sorted)
         \o (IF Len(c) > 1 THEN <<Tok(",")>> ELSE <<>>)
         \o DumpsMembers(Tail(c), isDict, sorted)
Dumps(v, sorted) ==
    CASE v.t = "null" -> <<Tok("null")>>
      [] v.t = "bool" -> <<Tok(IF v.n = 1 THEN "true" ELSE "false")>>
      [] v.t = "int" -> <<IntTok(v.n)>>
      [] v.t = "str" -> <<StrTok(v.s)>>
      [] v.t = "list" -> <<Tok("[")>> \o DumpsMembers(v.c, FALSE, sorted) \o <<Tok("]")>>
      [] v.t = "dict" ->
            <<Tok("{")>>
            \o DumpsMembers(IF sorted THEN MemberOrder(v.c) ELSE InsertionOrder(v.c), TRUE, sorted)
            \o <<Tok("}")>>

\* json.loads: [ok, v, next] for the value that starts at token i
ParseFail == [ok |-> FALSE, v |-> JNull, next |-> 0]
RECURSIVE ParseValue(_, _)
RECURSIVE ParseItems(_, _, _)
RECURSIVE ParseMembers(_, _, _)
ParseItems(ts, i, acc) ==
    LET r == ParseValue(ts, i) IN
    IF ~r.ok \/ r.next > Len(ts) THEN ParseFail
    ELSE IF ts[r.next].tok = "," THEN ParseItems(ts, r.next + 1, Append(acc, r.v))
    ELSE IF ts[r.next].tok = "]" THEN [ok |-> TRUE, v |-> JList(Append(acc, r.v)), next |-> r.next + 1]
    ELSE ParseFail
ParseMembers(ts, i, acc) ==
    IF i + 1 > Len(ts) \/ ts[i].tok # "str" \/ Len(ts[i].s) # 1 \/ ts[i + 1].tok # ":" THEN ParseFail
    ELSE LET r == ParseValue(ts, i + 2)
             d == Put(acc, ts[i].s[1].k, r.v)      \* a repeated key keeps its last value
         IN IF ~r.ok \/ r.next > Len(ts) THEN ParseFail
            ELSE IF ts[r.next].tok = "," THEN ParseMembers(ts, r.next + 1, d)
            ELSE IF ts[r.next].tok = "}" THEN [ok |-> TRUE, v |-> d, next |-> r.next + 1]
            ELSE ParseFail
ParseValue(ts, i) ==
    IF i > Len(ts) THEN ParseFail
    ELSE CASE ts[i].tok = "null" -> [ok |-> TRUE, v |-> JNull, next |-> i + 1]
           [] ts[i].tok = "true" -> [ok |-> TRUE, v |-> JBool(TRUE), next |-> i + 1]
           [] ts[i].tok = "false" -> [ok |-> TRUE, v |-> JBool(FALSE), next |-> i + 1]
           [] ts[i].tok = "int" -> [ok |-> TRUE, v |-> JInt(ts[i].n), next |-> i + 1]
           [] ts[i].tok = "str" -> [ok |-> TRUE, v |-> JStr(ts[i].s), next |-> i + 1]
           [] ts[i].tok = "[" ->
                IF i < Len(ts) /\ ts[i + 1].tok = "]"
                THEN [ok |-> TRUE, v |-> JList(<<>>), next |-> i + 2]
                ELSE ParseItems(ts, i + 1, <<>>)
           [] ts[i].tok = "{" ->
                IF i < Len(ts) /\ ts[i + 1].tok = "}"
                THEN [ok |-> TRUE, v |-> JDict(<<>>), next |-> i + 2]
                ELSE ParseMembers(ts, i + 1, JDict(<<>>))
           [] OTHER -> ParseFail

\* json.loads(text): the whole text is one value
Loads(ts) ==
    LET r == ParseValue(ts, 1) IN
    IF r.ok /\ r.next = Len(ts) + 1 THEN [ok |-> TRUE, v |-> r.v] ELSE [ok |-> FALSE, v |-> JNull]

\* hashlib.sha256(data).hexdigest(): 64 lowercase hex digits, one per input
\* (the digest is taken to be collision-free)
sha256_bytes(data) == <<[k |-> "hex", n |-> Sha256Len, of |-> ToString(data)]>>

\* sha256_file(path), on the content of the file
sha256_file(data) == sha256_bytes(data)

\* a canonicalisation that keeps the insertion order of the keys
capture_canonical_manifest_bytes_unsorted(m) == Dumps(Pop(m, "manifest_sha256"), FALSE)
\* fixture_capture.canonical_manifest_bytes
capture_canonical_manifest_bytes(m) == Dumps(Pop(m, "manifest_sha256"), TRUE)

\* validate_fixture_manifest.canonical_manifest_bytes
fixture_canonical_manifest_bytes(m) == Dumps(Pop(m, "manifest_sha256"), TRUE)

\* validate_e2e_manifest.canonical_manifest_bytes
e2e_canonical_manifest_bytes(m) == Dumps(Pop(m, "manifest_sha256"), TRUE)


----------------------------------------------------------------------------
(* Error lists *)

RECURSIVE Flat(_)
Flat(qs) == IF qs = <<>> THEN <<>> ELSE qs[1] \o Flat(Tail(qs))

Occurrences(q, x) == Cardinality({i \in DOMAIN q : q[i] = x})
Contains(q, x) == \E i \in DOMAIN q : q[i] = x

\* What a run of a script ends with.
NotRun == [status |-> "none", errors |-> <<>>]
Returned(errors) == [status |-> "returned", errors |-> errors]
Raised(what) == [status |-> "raised", errors |-> <<what>>]
\* load_json's SystemExit for the manifest itself
HardError(what) == [status |-> "hard", errors |-> <<what>>]
\* what a call of a validate_* function leaves: its error list, or the exception
FromCall(r) == IF r.raised THEN Raised(r.errors[1]) ELSE Returned(r.errors)

\* the process has not ended
Running == [code |-> -1, stdout |-> <<>>]

\* a main() that exits 0 whatever validate_manifest returned
main_exit_zero(result, ok_line) ==
    [code |-> 0, stdout |-> ok_line]

\* the end of main(): return 1 if errors else 0 (the end-to-end validator prints
\* ok_line before it returns 0); SystemExit(message) and a traceback exit with 1
main_exit(result, ok_line) ==
    IF result.status = "returned" /\ result.errors = <<>>
    THEN [code |-> 0, stdout |-> ok_line]
    ELSE [code |-> 1, stdout |-> <<>>]

----------------------------------------------------------------------------
(* validate_fixture_manifest.py: source block *)

\* the loop body of validate_source for one key
validate_source_key(source, key) ==
    LET value == Get(source, key) IN
    IF value.t = "null" THEN <<>>
    ELSE IF ~isinstance_list(value) THEN <<"source." \o key \o " must be list">>
    ELSE Flat([idx \in DOMAIN value.c |->
            LET item == value.c[idx].v
                label == "source." \o key \o "[" \o ToString(idx - 1) \o "]"
            IN IF ~isinstance_str(item) THEN <<label \o " must be string">>
               ELSE check_redaction(item.s, label)])

validate_source(source) ==
    LET origin == Get(source, "origin")
        notes == Get(source, "notes")
    IN (IF ~isinstance_str(origin) \/ origin.s = <<>>
        THEN <<"source.origin must be string">> ELSE <<>>)
       \o validate_source_key(source, "command")
       \o validate_source_key(source, "paths")
       \o (IF notes.t # "null" /\ ~isinstance_str(notes)
           THEN <<"source.notes must be string">> ELSE <<>>)

----------------------------------------------------------------------------
(* Paths and the file system.  A path is the sequence of its names from    *)
(* the root; files maps every path of AllPaths to [exists, data].          *)

\* pathlib.Path(text): the names between the slashes
RECURSIVE PathParts(_, _)
PathParts(s, cur) ==
    IF s = <<>> THEN (IF cur = "" THEN <<>> ELSE <<cur>>)
    ELSE IF s[1].k = "/" THEN (IF cur = "" THEN <<>> ELSE <<cur>>) \o PathParts(Tail(s), "")
    ELSE PathParts(Tail(s), cur \o Render(<<s[1]>>))

is_absolute(s) == s # <<>> /\ s[1].k = "/"

\* base_dir / path, unless path is absolute
Resolve(base_dir, s) == IF is_absolute(s) THEN PathParts(s, "") ELSE base_dir \o PathParts(s, "")

Parent(p) == SubSeq(p, 1, Len(p) - 1)

IsPrefix(p, q) == Len(p) <= Len(q) /\ SubSeq(q, 1, Len(p)) = p

IsFile(fs, p) == p \in DOMAIN fs /\ fs[p].exists
IsDir(fs, p) == \E q \in DOMAIN fs : fs[q].exists /\ IsPrefix(p, q) /\ p # q
\* path.exists()
Exists(fs, p) == IsFile(fs, p) \/ IsDir(fs, p)

\* path.as_posix() of a relative path
RECURSIVE as_posix(_)
as_posix(parts) ==
    IF parts = <<>> THEN <<>>
    ELSE W(parts[1]) \o (IF Len(parts) > 1 THEN W("/") ELSE <<>>) \o as_posix(Tail(parts))

RenderPath(p) == "/" \o Render(as_posix(p))

NoFile == [exists |-> FALSE, data |-> <<>>]
File(data) == [exists |-> TRUE, data |-> data]

\* path.stat().st_size
st_size(fs, p) == Len(fs[p].data)

\* What a function that may raise gives back.
Ok(errors) == [raised |-> FALSE, errors |-> errors]
Raise(what) == [raised |-> TRUE, errors |-> <<what>>]

\* the results of consecutive steps: the first exception ends them all
RECURSIVE Chain(_)
Chain(rs) ==
    IF rs = <<>> THEN Ok(<<>>)
    ELSE IF rs[1].raised THEN rs[1]
    ELSE LET rest == Chain(Tail(rs)) IN
         IF rest.raised THEN rest ELSE Ok(rs[1].errors \o rest.errors)

REDACTION_PROFILES == {W("minimal"), W("safe"), W("forensic"), W("custom")}

\* value not in REDACTION_PROFILES (a set lookup hashes the value)
NotInProfiles(v) == ~(isinstance_str(v) /\ v.s \in REDACTION_PROFILES)

----------------------------------------------------------------------------
(* Per-entry verification of a recorded file *)

\* the size and digest comparisons both validators make once the file exists
BytesCheck(label, entry, fs, p) ==
    LET path_value == Render(Get(entry, "path").s)
        expected_bytes == Get(entry, "bytes")
        actual_bytes == st_size(fs, p)
    IN IF ~isinstance_int(expected_bytes)
       THEN <<label \o " bytes missing for " \o path_value>>
       ELSE IF expected_bytes.n # actual_bytes
       THEN <<label \o " bytes mismatch for " \o path_value \o ": expected "
              \o ToString(expected_bytes.n) \o ", got " \o ToString(actual_bytes)>>
       ELSE <<>>

Sha256Check(label, entry, fs, p) ==
    LET path_value == Render(Get(entry, "path").s)
        expected_hash == Get(entry, "sha256")
        actual_hash == sha256_file(fs[p].data)
    IN IF ~isinstance_str(expected_hash) \/ ~SHA256_RE_match(expected_hash.s)
       THEN <<label \o " sha256 invalid for " \o path_value>>
       ELSE IF expected_hash.s # actual_hash
       THEN <<label \o " sha256 mismatch for " \o path_value \o ": expected "
              \o Render(expected_hash.s) \o ", got " \o Render(actual_hash)>>
       ELSE <<>>

\* validate_fixture_manifest.validate_artifact_entry
validate_artifact_entry(entry, base_dir, fs) ==
    LET path_value == Get(entry, "path") IN
    IF ~isinstance_str(path_value) \/ path_value.s = <<>>
    THEN Ok(<<"artifact entry missing path">>)
    ELSE LET path == Resolve(base_dir, path_value.s) IN
         IF ~Exists(fs, path) THEN Ok(<<"artifact file missing: " \o RenderPath(path)>>)
         ELSE IF ~IsFile(fs, path) THEN Raise("IsADirectoryError")
         ELSE LET redaction_profile == Get(entry, "redaction_profile") IN
              IF Unhashable(redaction_profile) THEN Raise("TypeError: unhashable type")
              ELSE Ok(BytesCheck("artifact", entry, fs, path)
                      \o Sha256Check("artifact", entry, fs, path)
                      \o (IF NotInProfiles(redaction_profile)
                          THEN <<"artifact redaction_profile invalid for " \o Render(path_value.s)>>
                          ELSE <<>>))

\* validate_e2e_manifest.validate_file_entry
validate_file_entry(entry, base_dir, label, fs) ==
    LET path_value == Get(entry, "path") IN
    IF ~isinstance_str(path_value) \/ path_value.s = <<>>
    THEN Ok(<<label \o " entry missing path">>)
    ELSE LET path == Resolve(base_dir, path_value.s) IN
         IF ~Exists(fs, path) THEN Ok(<<label \o " file missing: " \o RenderPath(path)>>)
         ELSE IF ~IsFile(fs, path) THEN Raise("IsADirectoryError")
         ELSE Ok(BytesCheck(label, entry, fs, path) \o Sha256Check(label, entry, fs, path))

----------------------------------------------------------------------------
(* Checks shared by the three validators *)

Num(n) == <<[k |-> "num", n |-> n, of |-> ""]>>
Version(a, b, c) == Num(a) \o W(".") \o Num(b) \o W(".") \o Num(c)

\* VERSION_RE = ^(\d+)\.(\d+)\.(\d+)$
VERSION_RE_match(s) ==
    /\ Len(s) = 5
    /\ s[1].k = "num" /\ s[2].k = "." /\ s[3].k = "num" /\ s[4].k = "." /\ s[5].k = "num"

SupportedMajor == 1

\* validate_version(version, errors)
validate_version(version) ==
    IF ~VERSION_RE_match(version) THEN <<"schema_version not semver: " \o Render(version)>>
    ELSE IF version[1].n # SupportedMajor
    THEN <<"unsupported schema_version major: " \o Render(version)>>
    ELSE <<>>

\* datetime.fromisoformat(value) parses: a date-time, with or without an offset
fromisoformat_ok(s) ==
    /\ Len(s) \in {1, 2}
    /\ s[1].k = "2026-01-15T10:30:00"
    /\ Len(s) = 2 => s[2].k = "+00:00"

\* parse_rfc3339(value)
parse_rfc3339(value) ==
    IF value # <<>> /\ value[Len(value)].k = "Z"
    THEN fromisoformat_ok(SubSeq(value, 1, Len(value) - 1) \o W("+00:00"))
    ELSE fromisoformat_ok(value)

\* schema: what the jsonschema package does with the document
\*   "unavailable"  import jsonschema fails
\*   "valid"        the document validates
\*   "invalid"      ValidationError
\*   "error"        another Exception (a schema jsonschema cannot use)
\*   "noschema"     the schema file is missing or no JSON: load_json raises SystemExit
SchemaOutcomes == {"unavailable", "valid", "invalid", "error", "noschema"}

\* a validator for which the jsonschema package is a hard requirement
validate_schema_required(schema) ==
    CASE schema = "invalid" -> Ok(<<"schema validation failed: <message>">>)
      [] schema = "error" -> Ok(<<"schema validation error: <exception>">>)
      [] schema = "noschema" -> Raise("SystemExit: manifest not found: <schema_path>")
      [] schema = "unavailable" -> Ok(<<"schema validation error: No module named 'jsonschema'">>)
      [] OTHER -> Ok(<<>>)

\* validate_schema_with_jsonschema(manifest, schema_path, errors)
validate_schema_with_jsonschema(schema) ==
    CASE schema = "invalid" -> Ok(<<"schema validation failed: <message>">>)
      [] schema = "error" -> Ok(<<"schema validation error: <exception>">>)
      [] schema = "noschema" -> Raise("SystemExit: manifest not found: <schema_path>")
      [] OTHER -> Ok(<<>>)

\* the required-field loop stopping at the first missing key
RequiredFieldsFirstOnly(manifest, fields) ==
    IF \E i \in DOMAIN fields : ~Has(manifest, fields[i])
    THEN <<"missing required field: "
           \o fields[CHOOSE i \in DOMAIN fields :
                        /\ ~Has(manifest, fields[i])
                        /\ \A j \in 1..(i - 1) : Has(manifest, fields[j])]>>
    ELSE <<>>

\* for field in [...]: if field not in manifest: errors.append(...)
RequiredFields(manifest, fields) ==
    Flat([i \in DOMAIN fields |->
            IF Has(manifest, fields[i]) THEN <<>>
            ELSE <<"missing required field: " \o fields[i]>>])

\* what `field not in manifest` / manifest.get do to a document that is no dict
NotADict(manifest) ==
    IF manifest.t \in {"list", "str"}
    THEN Raise("AttributeError: object has no attribute 'get'")
    ELSE Raise("TypeError: argument is not iterable")

\* f"{value}"
Show(v) ==
    CASE v.t = "str" -> Render(v.s)
      [] v.t = "int" -> ToString(v.n)
      [] v.t = "null" -> "None"
      [] OTHER -> v.t

\* schema_version = manifest.get("schema_version"); ...
SchemaVersionCheck(manifest) ==
    LET schema_version == Get(manifest, "schema_version") IN
    IF isinstance_str(schema_version) THEN validate_version(schema_version.s)
    ELSE <<"schema_version must be string">>

MustBeString(d, prefix, key) ==
    IF isinstance_str(Get(d, key)) THEN <<>> ELSE <<prefix \o key \o " must be string">>

\* a timestamp field: msgBad when it does not parse, msgType when it is no string
TimestampCheck(manifest, key, msgBad, msgType) ==
    LET v == Get(manifest, key) IN
    IF isinstance_str(v) THEN (IF parse_rfc3339(v.s) THEN <<>> ELSE <<msgBad>>)
    ELSE <<msgType>>

----------------------------------------------------------------------------
(* validate_fixture_manifest.py *)

FixtureRequired ==
    <<"schema_version", "fixture_id", "domain", "capture_time", "source",
      "tool_versions", "redaction_profile", "artifacts", "manifest_sha256">>

FixtureRequiredFields(manifest) == RequiredFields(manifest, FixtureRequired)

\* validate_tool_versions(tool_versions, errors)
validate_tool_versions(tool_versions) ==
    Flat([i \in DOMAIN tool_versions.c |->
            LET key == tool_versions.c[i].k
                value == tool_versions.c[i].v
            IN IF key = "" THEN <<"tool_versions keys must be strings">>
               ELSE IF ~isinstance_str(value) \/ value.s = <<>>
               THEN <<"tool_versions." \o key \o " must be string">>
               ELSE <<>>])

\* lines 181-223: required fields and the checks of the scalar fields and blocks
FixtureFieldChecks(manifest) ==
    LET source == Get(manifest, "source")
        tool_versions == Get(manifest, "tool_versions")
    IN FixtureRequiredFields(manifest)
       \o SchemaVersionCheck(manifest)
       \o MustBeString(manifest, "", "fixture_id")
       \o MustBeString(manifest, "", "domain")
       \o TimestampCheck(manifest, "capture_time", "capture_time must be RFC3339 timestamp",
                         "capture_time must be string")
       \o (IF isinstance_dict(source) THEN validate_source(source)
           ELSE <<"source must be object">>)
       \o (IF isinstance_dict(tool_versions) THEN validate_tool_versions(tool_versions)
           ELSE <<"tool_versions must be object">>)

\* lines 225-227
FixtureProfileCheck(manifest) ==
    LET redaction_profile == Get(manifest, "redaction_profile") IN
    IF Unhashable(redaction_profile) THEN Raise("TypeError: unhashable type")
    ELSE IF NotInProfiles(redaction_profile)
    THEN Ok(<<"redaction_profile must be one of minimal/safe/forensic/custom">>)
    ELSE Ok(<<>>)

\* lines 229-238
FixtureArtifactsCheck(manifest, manifest_path, fs) ==
    LET artifacts == Get(manifest, "artifacts") IN
    IF isinstance_list(artifacts) /\ artifacts.c # <<>>
    THEN Chain([i \in DOMAIN artifacts.c |->
                  IF ~isinstance_dict(artifacts.c[i].v)
                  THEN Ok(<<"artifact entry must be object">>)
                  ELSE validate_artifact_entry(artifacts.c[i].v, Parent(manifest_path), fs)])
    ELSE Ok(<<"artifacts must be non-empty list">>)

\* lines 240-246
FixtureHashCheck(manifest) ==
    LET manifest_sha == Get(manifest, "manifest_sha256") IN
    IF isinstance_str(manifest_sha) /\ SHA256_RE_match(manifest_sha.s)
    THEN (IF manifest_sha.s # sha256_bytes(fixture_canonical_manifest_bytes(manifest))
          THEN <<"manifest_sha256 mismatch">> ELSE <<>>)
    ELSE <<"manifest_sha256 must be sha256 hex">>

\* validate_manifest(manifest, manifest_path, schema_path)
fixture_validate_manifest(manifest, manifest_path, fs, schema) ==
    Chain(<<validate_schema_with_jsonschema(schema),
            IF ~isinstance_dict(manifest) THEN NotADict(manifest)
            ELSE Chain(<<Ok(FixtureFieldChecks(manifest)),
                         FixtureProfileCheck(manifest),
                         FixtureArtifactsCheck(manifest, manifest_path, fs),
                         Ok(FixtureHashCheck(manifest))>>)>>)

----------------------------------------------------------------------------
(* validate_e2e_manifest.py *)

E2ERequired ==
    <<"schema_version", "run_id", "suite", "test_id", "timestamp", "env", "commands",
      "logs", "artifacts", "metrics", "manifest_sha256">>

LOG_KINDS == {W("jsonl"), W("text"), W("tap"), W("stdout"), W("stderr")}
ARTIFACT_KINDS ==
    {W("snapshot"), W("plan"), W("telemetry"), W("bundle"), W("report"), W("daemon"),
     W("install"), W("tui"), W("manifest"), W("other")}
REDACTION_REQUIRED_KINDS ==
    {W("snapshot"), W("plan"), W("telemetry"), W("bundle"), W("report")}

\* require_field for every required key
E2ERequiredFields(manifest) == RequiredFields(manifest, E2ERequired)

\* the lines of a text file: for idx, line in enumerate(handle, start=1)
RECURSIVE SplitLines(_, _)
SplitLines(data, cur) ==
    IF data = <<>> THEN (IF cur = <<>> THEN <<>> ELSE <<cur>>)
    ELSE IF data[1].tok = "nl" THEN <<cur>> \o SplitLines(Tail(data), <<>>)
    ELSE SplitLines(Tail(data), Append(cur, data[1]))

\* the body of the loop of validate_jsonl_run_id for line idx
JsonlLine(path_value, line, idx, run_id) ==
    IF line = <<>> THEN Ok(<<>>)
    ELSE LET payload == Loads(line) IN
         IF ~payload.ok
         THEN Ok(<<"jsonl parse error in " \o Render(path_value) \o " line " \o ToString(idx)>>)
         ELSE IF ~isinstance_dict(payload.v)
         THEN Raise("AttributeError: object has no attribute 'get'")
         ELSE IF Get(payload.v, "run_id") # JStr(run_id)
         THEN Ok(<<"jsonl run_id mismatch in " \o Render(path_value) \o " line " \o ToString(idx)>>)
         ELSE Ok(<<>>)

\* validate_jsonl_run_id(entry, base_dir, run_id, errors)
validate_jsonl_run_id(entry, base_dir, run_id, fs) ==
    LET path_value == Get(entry, "path") IN
    IF ~isinstance_str(path_value) \/ path_value.s = <<>> THEN Ok(<<>>)
    ELSE LET path == Resolve(base_dir, path_value.s) IN
         IF ~Exists(fs, path) THEN Ok(<<>>)
         ELSE IF ~IsFile(fs, path) THEN Raise("IsADirectoryError")
         ELSE LET lines == SplitLines(fs[path].data, <<>>) IN
              Chain([idx \in DOMAIN lines |-> JsonlLine(path_value.s, lines[idx], idx, run_id)])

\* lines 190-215
E2EFieldChecks(manifest) ==
    LET env == Get(manifest, "env") IN
    E2ERequiredFields(manifest)
    \o SchemaVersionCheck(manifest)
    \o MustBeString(manifest, "", "run_id")
    \o MustBeString(manifest, "", "suite")
    \o MustBeString(manifest, "", "test_id")
    \o TimestampCheck(manifest, "timestamp", "timestamp not RFC3339", "timestamp must be string")
    \o (IF isinstance_dict(env)
        THEN MustBeString(env, "env.", "os") \o MustBeString(env, "env.", "arch")
             \o MustBeString(env, "env.", "kernel") \o MustBeString(env, "env.", "ci_provider")
        ELSE <<"env must be object">>)

\* lines 217-227
E2EHashCheck(manifest) ==
    LET manifest_sha256 == Get(manifest, "manifest_sha256")
        computed_hash == sha256_bytes(e2e_canonical_manifest_bytes(manifest))
    IN IF isinstance_str(manifest_sha256)
       THEN (IF ~SHA256_RE_match(manifest_sha256.s)
             THEN <<"manifest_sha256 not sha256 hex">> ELSE <<>>)
            \o (IF manifest_sha256.s # computed_hash
                THEN <<"manifest_sha256 mismatch: expected " \o Render(manifest_sha256.s)
                       \o ", got " \o Render(computed_hash)>>
                ELSE <<>>)
       ELSE <<"manifest_sha256 must be string">>

\* lines 232-246
E2ECommandsCheck(manifest) ==
    LET commands == Get(manifest, "commands") IN
    IF isinstance_list(commands) /\ commands.c # <<>>
    THEN Flat([i \in DOMAIN commands.c |->
            LET entry == commands.c[i].v
                at == "commands[" \o ToString(i - 1) \o "]"
                argv == Get(entry, "argv")
            IN IF ~isinstance_dict(entry) THEN <<at \o " must be object">>
               ELSE (IF ~isinstance_list(argv) \/ argv.c = <<>>
                        \/ \E j \in DOMAIN argv.c : ~isinstance_str(argv.c[j].v)
                     THEN <<at \o ".argv must be non-empty string array">> ELSE <<>>)
                    \o (IF ~isinstance_int(Get(entry, "exit_code"))
                        THEN <<at \o ".exit_code must be integer">> ELSE <<>>)
                    \o (IF ~isinstance_int(Get(entry, "duration_ms"))
                        THEN <<at \o ".duration_ms must be integer">> ELSE <<>>)])
    ELSE <<"commands must be non-empty array">>

\* the body of the loop over logs, lines 251-259
E2ELogEntry(entry, base_dir, run_id, fs) ==
    IF ~isinstance_dict(entry) THEN Ok(<<"log entry must be object">>)
    ELSE LET kind == Get(entry, "kind") IN
         IF Unhashable(kind) THEN Raise("TypeError: unhashable type")
         ELSE Chain(<<Ok(IF isinstance_str(kind) /\ kind.s \in LOG_KINDS THEN <<>>
                         ELSE <<"log kind invalid: " \o Show(kind)>>),
                      validate_file_entry(entry, base_dir, "log", fs),
                      IF kind = JStr(W("jsonl")) /\ run_id # <<>>
                      THEN validate_jsonl_run_id(entry, base_dir, run_id, fs)
                      ELSE Ok(<<>>)>>)

\* the body of the loop over artifacts, lines 266-274
E2EArtifactEntry(entry, base_dir, fs) ==
    IF ~isinstance_dict(entry) THEN Ok(<<"artifact entry must be object">>)
    ELSE LET kind == Get(entry, "kind") IN
         IF Unhashable(kind) THEN Raise("TypeError: unhashable type")
         ELSE Chain(<<Ok(IF isinstance_str(kind) /\ kind.s \in ARTIFACT_KINDS THEN <<>>
                         ELSE <<"artifact kind invalid: " \o Show(kind)>>),
                      validate_file_entry(entry, base_dir, "artifact", fs),
                      Ok(IF isinstance_str(kind) /\ kind.s \in REDACTION_REQUIRED_KINDS
                            /\ ~Truthy(Get(entry, "redaction_profile"))
                         THEN <<"artifact " \o Show(Get(entry, "path")) \o " missing redaction_profile">>
                         ELSE <<>>)>>)

\* lines 248-261
E2ELogsCheck(manifest, manifest_path, fs) ==
    LET logs == Get(manifest, "logs")
        run_id == IF isinstance_str(Get(manifest, "run_id")) THEN Get(manifest, "run_id").s ELSE <<>>
    IN IF isinstance_list(logs)
       THEN Chain([i \in DOMAIN logs.c |->
                      E2ELogEntry(logs.c[i].v, Parent(manifest_path), run_id, fs)])
       ELSE Ok(<<"logs must be array">>)

\* lines 263-276
E2EArtifactsCheck(manifest, manifest_path, fs) ==
    LET artifacts == Get(manifest, "artifacts") IN
    IF isinstance_list(artifacts)
    THEN Chain([i \in DOMAIN artifacts.c |->
                   E2EArtifactEntry(artifacts.c[i].v, Parent(manifest_path), fs)])
    ELSE Ok(<<"artifacts must be array">>)

\* validate_manifest(manifest, manifest_path, schema_path)
e2e_validate_manifest(manifest, manifest_path, fs, schema) ==
    Chain(<<validate_schema_with_jsonschema(schema),
            IF ~isinstance_dict(manifest) THEN NotADict(manifest)
            ELSE Chain(<<Ok(E2EFieldChecks(manifest)),
                         Ok(E2EHashCheck(manifest)),
                         Ok(E2ECommandsCheck(manifest)),
                         E2ELogsCheck(manifest, manifest_path, fs),
                         E2EArtifactsCheck(manifest, manifest_path, fs)>>)>>)

----------------------------------------------------------------------------
(* validate_capabilities_manifest.py *)

CapabilitiesRequired == <<"schema_version", "os", "tools", "user", "paths", "discovered_at">>

CapabilitiesRequiredFields(manifest) == RequiredFields(manifest, CapabilitiesRequired)

\* validate_manifest(manifest, schema_path)
capabilities_validate_manifest(manifest, schema) ==
    Chain(<<validate_schema_with_jsonschema(schema),
            IF ~isinstance_dict(manifest) THEN NotADict(manifest)
            ELSE LET os_info == Get(manifest, "os")
                     tools == Get(manifest, "tools")
                     user == Get(manifest, "user")
                     paths == Get(manifest, "paths")
                 IN Ok(CapabilitiesRequiredFields(manifest)
                       \o SchemaVersionCheck(manifest)
                       \o (IF ~isinstance_dict(os_info) THEN <<"os must be object">>
                           ELSE MustBeString(os_info, "os.", "family"))
                       \o (IF ~isinstance_dict(tools) THEN <<"tools must be object">> ELSE <<>>)
                       \o (IF ~isinstance_dict(user) THEN <<"user must be object">>
                           ELSE (IF ~isinstance_int(Get(user, "uid"))
                                 THEN <<"user.uid must be integer">> ELSE <<>>)
                                \o MustBeString(user, "user.", "username")
                                \o MustBeString(user, "user.", "home"))
                       \o (IF ~isinstance_dict(paths) THEN <<"paths must be object">>
                           ELSE MustBeString(paths, "paths.", "config_dir")
                                \o MustBeString(paths, "paths.", "data_dir"))
                       \o TimestampCheck(manifest, "discovered_at",
                                         "discovered_at must be RFC3339 timestamp",
                                         "discovered_at must be string"))>>)

----------------------------------------------------------------------------
(* fixture_capture.py *)

SCRIPT_VERSION == Version(1, 0, 0)
SCHEMA_VERSION == Version(1, 0, 0)

\* name.endswith(suffix) and `word in name`, for the file names of the model
NameSuffixes ==
    {<<"run.jsonl", ".jsonl">>, <<"fixture_capture.jsonl", ".jsonl">>,
     <<"a.json", ".json">>, <<"policy.json", ".json">>,
     <<"fixture_manifest.json", ".json">>, <<"fixture_manifest.json", "manifest.json">>,
     <<"m.json", ".json">>}
NameWords == {<<"policy.json", "policy">>}

\* infer_kind(rel_path)
infer_kind(rel) ==
    LET name == rel[Len(rel)] IN
    IF <<name, ".jsonl">> \in NameSuffixes THEN "log"
    ELSE IF <<name, "policy">> \in NameWords THEN "policy"
    ELSE IF <<name, "priors">> \in NameWords THEN "priors"
    ELSE IF <<name, "manifest.json">> \in NameSuffixes THEN "manifest"
    ELSE IF <<name, ".json">> \in NameSuffixes THEN "config"
    ELSE "other"

\* fnmatch.fnmatch(rel_path, pattern), for the patterns "*", "sub/*" and "*.jsonl"
fnmatch(rel, pattern) ==
    CASE pattern = "*" -> TRUE
      [] pattern = "sub/*" -> Len(rel) > 1 /\ rel[1] = "sub"
      [] pattern = "*.jsonl" -> <<rel[Len(rel)], ".jsonl">> \in NameSuffixes
      [] OTHER -> FALSE

\* should_exclude(rel_path, excludes)
should_exclude(rel, excludes) == \E pattern \in excludes : fnmatch(rel, pattern)

FixtureDir == <<"fx">>

\* every path of the model, in the order sorted() gives paths
AllPaths ==
    <<<<"elsewhere", "m.json">>,
      <<"fx", "a.json">>,
      <<"fx", "fixture_manifest.json">>,
      <<"fx", "logs", "fixture_capture.jsonl">>,
      <<"fx", "policy.json">>,
      <<"fx", "sub", "m.json">>,
      <<"fx", "sub", "run.jsonl">>>>

PathSet == {AllPaths[i] : i \in DOMAIN AllPaths}

\* gather_artifacts(fixture_dir, excludes, manifest_path, log_path, redaction_profile);
\* log_path = <<>> stands for None
gather_artifacts(fs, fixture_dir, excludes, manifest_path, log_path, redaction_profile) ==
    Flat([i \in DOMAIN AllPaths |->
            LET path == AllPaths[i]
                rel_path == SubSeq(path, Len(fixture_dir) + 1, Len(path))
            IN IF ~IsFile(fs, path) \/ ~IsPrefix(fixture_dir, path) THEN <<>>
               ELSE IF path = manifest_path THEN <<>>
               ELSE IF log_path # <<>> /\ path = log_path THEN <<>>
               ELSE IF should_exclude(rel_path, excludes) THEN <<>>
               ELSE <<JDict(<<<<"path", JStr(as_posix(rel_path))>>,
                              <<"kind", JStr(W(infer_kind(rel_path)))>>,
                              <<"sha256", JStr(sha256_file(fs[path].data))>>,
                              <<"bytes", JInt(st_size(fs, path))>>,
                              <<"redaction_profile", JStr(redaction_profile)>>>>)>>])

\* parse_tool_versions(entries): entries are <<key, value>> texts around the first "="
\* (no "=" in the entry, or an empty side, ends the capture with SystemExit)
ToolVersionOk(entry) == entry[1] # <<>> /\ entry[2] # <<>>

RECURSIVE PutAll(_, _)
PutAll(d, entries) ==
    IF entries = <<>> THEN d
    ELSE PutAll(Put(d, Render(entries[1][1]), JStr(entries[1][2])), Tail(entries))

parse_tool_versions(entries) ==
    PutAll(JDict(<<<<"fixture_capture", JStr(SCRIPT_VERSION)>>>>), entries)

StrList(texts) == JList([i \in DOMAIN texts |-> JStr(texts[i])])

\* the digest build_manifest stores, line 189
ManifestDigest(manifest) == sha256_bytes(capture_canonical_manifest_bytes(manifest))

\* build_manifest(...); description = <<>> stands for None, so do command and
\* source_paths
build_manifest(fixture_id, domain, description, capture_time, origin, command, source_paths, tool_versions, redaction_profile, artifacts) ==
    LET m0 == JDict(<<<<"schema_version", JStr(SCHEMA_VERSION)>>,
                      <<"fixture_id", JStr(fixture_id)>>,
                      <<"domain", JStr(domain)>>,
                      <<"capture_time", JStr(capture_time)>>,
                      <<"source", JDict(<<<<"origin", JStr(origin)>>>>)>>,
                      <<"tool_versions", tool_versions>>,
                      <<"redaction_profile", JStr(redaction_profile)>>,
                      <<"artifacts", JList(artifacts)>>>>)
        m1 == IF description # <<>> THEN Put(m0, "description", JStr(description)) ELSE m0
        m2 == IF command # <<>>
              THEN Put(m1, "source", Put(Get(m1, "source"), "command",
                                         StrList(redact_values(command))))
              ELSE m1
        m3 == IF source_paths # <<>>
              THEN Put(m2, "source", Put(Get(m2, "source"), "paths",
                                         StrList(redact_values(source_paths))))
              ELSE m2
    IN Put(m3, "manifest_sha256", JStr(ManifestDigest(m3)))

\* write_log(...): one line appended to the log file
write_log(fs, log_path, event, fixture_id, artifacts, host_id) ==
    LET p0 == JDict(<<<<"event", JStr(event)>>,
                      <<"timestamp", JStr(W("2026-01-15T10:30:00") \o W("Z"))>>,
                      <<"fixture_id", JStr(fixture_id)>>,
                      <<"duration_ms", JInt(0)>>,
                      <<"artifacts",
                        JList([i \in DOMAIN artifacts |->
                                 JDict(<<<<"path", Get(artifacts[i], "path")>>,
                                         <<"sha256", Get(artifacts[i], "sha256")>>,
                                         <<"bytes", Get(artifacts[i], "bytes")>>>>)])>>>>)
        payload == IF host_id # <<>> THEN Put(p0, "host_id", JStr(host_id)) ELSE p0
    IN [fs EXCEPT ![log_path] = File(@.data \o Dumps(payload, FALSE) \o <<Tok("nl")>>)]

\* output_path.write_text(json.dumps(manifest, indent=2, ensure_ascii=False) + "\n")
write_manifest(fs, output_path, manifest) ==
    [fs EXCEPT ![output_path] = File(Dumps(manifest, FALSE) \o <<Tok("nl")>>)]

\* load_json(path)
load_json(fs, path) ==
    IF ~IsFile(fs, path) THEN [ok |-> FALSE, v |-> JNull, why |-> "manifest not found"]
    ELSE LET data == fs[path].data
             body == IF data # <<>> /\ data[Len(data)].tok = "nl"
                     THEN SubSeq(data, 1, Len(data) - 1) ELSE data
             r == Loads(body)
         IN [ok |-> r.ok, v |-> r.v, why |-> IF r.ok THEN "" ELSE "invalid JSON"]

----------------------------------------------------------------------------
(* Redaction of one provenance entry: capture's substitution, then the     *)
(* validator's scan                                                        *)

MaxAffix == 1

AffixAtoms == {Atom("x_", 0), Atom(" ", 0), Atom("/", 0), Atom("-", 0), Atom("hex", 1)}

RECURSIVE SeqsUpTo(_, _)
SeqsUpTo(S, n) ==
    IF n = 0 THEN {<<>>}
    ELSE SeqsUpTo(S, n - 1) \cup {Append(q, x) : q \in SeqsUpTo(S, n - 1), x \in S}

Affixes == SeqsUpTo(AffixAtoms, MaxAffix)

Uuid(a, b, c, d, e) == a \o W("-") \o b \o W("-") \o c \o W("-") \o d \o W("-") \o e

Cores ==
    { W("/") \o W("Users") \o W("/") \o W("alice") \o W("/") \o W("project"),
      W("/") \o W("home") \o W("/") \o W("bob"),
      W("/") \o W("home") \o W("/") \o W("USER") \o W("/") \o W("project"),
      W("/") \o W("Users") \o W("/"),
      W("/") \o W("users") \o W("/") \o W("alice"),
      W("/") \o W("home") \o W("/") \o W("al") \o W("/") \o W("home") \o W("/") \o W("bo"),
      Uuid(Hx(8), Hx(4), Hx(4), Hx(4), Hx(12)),
      Uuid(HxU(8), Hx(4), HxU(4), Hx(4), HxU(12)),
      Uuid(Hx(8), Hx(4), Hx(4), Hx(4), Hx(11)),
      Uuid(Hx(8), Hx(4), Hx(4), Hx(4), Hx(12)) \o W("-") \o Hx(4) \o W("-") \o Hx(4)
          \o W("-") \o Hx(4) \o W("-") \o Hx(12),
      Uuid(Hx(8), Hx(4), Hx(4), Hx(4), Hx(12)) \o W(" ") \o Hx(HexIdMin),
      Hx(HexIdMin), Hx(HexIdMin - 1), Hx(HexIdMin + 1), HxU(HexIdMin), Hx(Sha256Len),
      W("build") }

Entries == {Norm(a \o c \o b) : a \in Affixes, c \in Cores, b \in Affixes}

SourceKeys == {"command", "paths"}

RedactInit ==
    /\ pc = "entry"
    /\ text \in Entries
    /\ prev = text
    /\ hist = <<>>
    /\ exit = Running
    /\ out = NotRun
    /\ files = <<>>
    /\ loaded = JNull
    /\ mpath = <<>>

\* fixture_capture: redact_path on the entry
RedactPath ==
    /\ pc = "entry" /\ out.status = "none"
    /\ text' = redact_path(text)
    /\ prev' = text
    /\ pc' = "redact_path"
    /\ UNCHANGED <<files, loaded, mpath, out, hist, exit>>

\* fixture_capture: redact_id on the entry
RedactId ==
    /\ pc = "entry" /\ out.status = "none"
    /\ text' = redact_id(text)
    /\ prev' = text
    /\ pc' = "redact_id"
    /\ UNCHANGED <<files, loaded, mpath, out, hist, exit>>

\* fixture_capture: redact_cmdline on the entry (both substitutions)
RedactCmdline ==
    /\ pc = "entry" /\ out.status = "none"
    /\ text' = redact_cmdline(text)
    /\ prev' = text
    /\ pc' = "redact_cmdline"
    /\ UNCHANGED <<files, loaded, mpath, out, hist, exit>>

\* validate_fixture_manifest: validate_source on a source block holding the entry
ScanEntry ==
    /\ out.status = "none"
    /\ \E key \in SourceKeys :
         out' = Returned(validate_source(
                    JDict(<<<<"origin", JStr(W("manual"))>>, <<key, JList(<<JStr(text)>>)>>>>)))
    /\ UNCHANGED <<pc, files, loaded, mpath, text, prev, hist, exit>>

RedactNext == RedactPath \/ RedactId \/ RedactCmdline \/ ScanEntry

SpecRedact == RedactInit /\ [][RedactNext]_vars

Flagged(what) ==
    \E key \in SourceKeys : Contains(out.errors, "source." \o key \o "[0] contains unredacted " \o what)

\* the entry holds /Users/<name> or /home/<name>
ContainsHomePath(s) ==
    \E i \in 1..(Len(s) - 3) :
        /\ s[i].k = "/" /\ s[i + 1].k \in {"Users", "home"} /\ s[i + 2].k = "/"
        /\ s[i + 3].k \notin {"/"}

\* the entry holds five hex groups of 8, 4, 4, 4 and 12 digits joined by hyphens
ContainsUuid(s) ==
    \E i \in 1..(Len(s) - 8) :
        /\ \A g \in 0..4 : s[i + 2 * g].k \in {"hex", "hexU"}
        /\ \A g \in 1..4 : s[i + 2 * g - 1].k = "-"
        /\ <<s[i].n, s[i + 2].n, s[i + 4].n, s[i + 6].n, s[i + 8].n>> = <<8, 4, 4, 4, 12>>

\* ... with no letter, digit or underscore directly before or after it
ContainsBareUuid(s) ==
    \E i \in 1..(Len(s) - 8) :
        /\ \A g \in 0..4 : s[i + 2 * g].k \in {"hex", "hexU"}
        /\ \A g \in 1..4 : s[i + 2 * g - 1].k = "-"
        /\ <<s[i].n, s[i + 2].n, s[i + 4].n, s[i + 6].n, s[i + 8].n>> = <<8, 4, 4, 4, 12>>
        /\ (i > 1 => s[i - 1].k \in Punct)
        /\ (i + 8 < Len(s) => s[i + 9].k \in Punct)

\* the entry holds a token of 32 or more hex digits standing alone
ContainsBareHex(s) ==
    \E i \in 1..Len(s) :
        /\ s[i].k \in {"hex", "hexU"} /\ s[i].n >= 32
        /\ (i > 1 => s[i - 1].k \in Punct)
        /\ (i < Len(s) => s[i + 1].k \in Punct)

\* C6 (as stated): an entry with a home path is flagged, and the same entry after
\* redact_path is not flagged for a home path.
C6_HomeRedaction ==
    out.status = "returned" =>
        /\ (pc = "entry" /\ ContainsHomePath(text)) => Flagged("home path")
        /\ (pc = "redact_path" /\ ContainsHomePath(prev)) => ~Flagged("home path")

\* C7 (as stated): an entry with a UUID or a bare hex token of 32 or more digits is
\* flagged, and the same entry after redact_id has no UUID and no hex-id violation.
C7_IdRedaction ==
    out.status = "returned" =>
        /\ (pc = "entry" /\ ContainsUuid(text)) => Flagged("UUID")
        /\ (pc = "entry" /\ ContainsBareHex(text)) => Flagged("hex id")
        /\ (pc = "redact_id" /\ (ContainsUuid(prev) \/ ContainsBareHex(prev)))
               => (~Flagged("UUID") /\ ~Flagged("hex id"))

\* C7 (amended): an entry with a UUID that no word character touches, or a bare hex
\* token of 32 or more digits, is flagged, and any entry after redact_id has no UUID
\* and no hex-id violation.
C7_BareIdRedaction ==
    out.status = "returned" =>
        /\ (pc = "entry" /\ ContainsBareUuid(text)) => Flagged("UUID")
        /\ (pc = "entry" /\ ContainsBareHex(text)) => Flagged("hex id")
        /\ pc = "redact_id" => (~Flagged("UUID") /\ ~Flagged("hex id"))

C7_Witness ==
    /\ out.status = "returned" /\ pc = "redact_id"
    /\ ContainsBareUuid(prev) /\ ContainsBareHex(prev)
    /\ ~ContainsBareUuid(text)
    /\ out.errors = <<>>

----------------------------------------------------------------------------
(* Verification of one recorded file entry against the file system *)

MaxFileLen == 1

ByteValues == {0, 1}

Contents == SeqsUpTo({Byte(b) : b \in ByteValues}, MaxFileLen)

BaseDir == <<"base">>

\* base/a.bin may exist; base/sub/b.bin exists, so that base/sub is a directory
EntryFileSystems ==
    {[q \in {<<"base", "a.bin">>, <<"base", "sub", "b.bin">>} |->
        IF q = <<"base", "a.bin">> THEN f ELSE File(<<Byte(0)>>)] :
     f \in {NoFile} \cup {File(d) : d \in Contents}}

EntryPathValues ==
    {JNull, JInt(7), JStr(<<>>), JStr(W("a.bin")), JStr(W("sub")),
     JStr(W("/") \o W("base") \o W("/") \o W("a.bin")), JStr(W("sub") \o W("/") \o W("b.bin"))}
EntryBytesValues ==
    {JNull, JBool(TRUE), JStr(W("2"))} \cup {JInt(n) : n \in 0..MaxFileLen}
EntrySha256Values ==
    {JNull, JInt(0), JStr(Hx(Sha256Len - 1)), JStr(HxU(Sha256Len)), JStr(Hx(Sha256Len))}
    \cup {JStr(sha256_file(d)) : d \in Contents}
EntryProfileValues == {JNull, JStr(W("safe")), JStr(W("bogus")), JList(<<JStr(W("safe"))>>)}

EntryInit ==
    /\ pc = "entry"
    /\ files \in EntryFileSystems
    /\ \E pv \in EntryPathValues, bv \in EntryBytesValues,
          hv \in EntrySha256Values, rp \in EntryProfileValues :
         loaded = JDict(<<<<"path", pv>>, <<"bytes", bv>>, <<"sha256", hv>>,
                            <<"redaction_profile", rp>>>>)
    /\ mpath = BaseDir \o <<"manifest.json">>
    /\ out = NotRun
    /\ text = <<>>
    /\ prev = files
    /\ hist = <<>>
    /\ exit = Running

\* one byte is cut off the end of a file
TruncateFile ==
    /\ pc = "entry" /\ prev = files
    /\ \E q \in DOMAIN files :
         /\ files[q].exists /\ files[q].data # <<>>
         /\ files' = [files EXCEPT ![q].data = SubSeq(@, 1, Len(@) - 1)]
    /\ UNCHANGED <<pc, loaded, mpath, out, text, prev, hist, exit>>

\* validate_fixture_manifest.validate_artifact_entry(entry, base_dir, errors)
VerifyArtifactEntry ==
    /\ pc = "entry"
    /\ out' = FromCall(validate_artifact_entry(loaded, Parent(mpath), files))
    /\ pc' = "artifact"
    /\ UNCHANGED <<files, loaded, mpath, text, prev, hist, exit>>

\* validate_e2e_manifest.validate_file_entry(entry, base_dir, label, errors)
VerifyFileEntry ==
    /\ pc = "entry"
    /\ \E label \in {"log", "artifact"} :
         /\ out' = FromCall(validate_file_entry(loaded, Parent(mpath), label, files))
         /\ pc' = "file:" \o label
    /\ UNCHANGED <<files, loaded, mpath, text, prev, hist, exit>>

EntryNext == TruncateFile \/ VerifyArtifactEntry \/ VerifyFileEntry

SpecEntry == EntryInit /\ [][EntryNext]_vars

EntryLabel == IF pc = "file:log" THEN "log" ELSE "artifact"
EntryPath == Resolve(Parent(mpath), Get(loaded, "path").s)
EntryHasPath == Get(loaded, "path").t = "str" /\ Get(loaded, "path").s # <<>>
Verified == pc \in {"artifact", "file:log", "file:artifact"}

\* error entries about the size and about the digest of the entry
IsBytesMismatch(e) ==
    \E x \in 0..(MaxFileLen + 1), y \in 0..(MaxFileLen + 1) :
        e = EntryLabel \o " bytes mismatch for " \o Render(Get(loaded, "path").s)
            \o ": expected " \o ToString(x) \o ", got " \o ToString(y)
IsSha256Mismatch(e) ==
    \E x \in {v.s : v \in {w \in EntrySha256Values : w.t = "str"}},
       d \in Contents :
        e = EntryLabel \o " sha256 mismatch for " \o Render(Get(loaded, "path").s)
            \o ": expected " \o Render(x) \o ", got " \o Render(sha256_file(d))
IsSizeOrDigestError(e) ==
    \/ IsBytesMismatch(e) \/ IsSha256Mismatch(e)
    \/ e = EntryLabel \o " bytes missing for " \o Render(Get(loaded, "path").s)
    \/ e = EntryLabel \o " sha256 invalid for " \o Render(Get(loaded, "path").s)
IsFileMissing(e) == e = EntryLabel \o " file missing: " \o RenderPath(EntryPath)

Count(q, P(_)) == Cardinality({i \in DOMAIN q : P(q[i])})

\* C4 (as stated): a missing file gives exactly one 'file missing' error and no size
\* or digest error; for a file that exists a bytes mismatch is reported iff the
\* recorded integer differs from the size, and a sha256 mismatch iff the recorded
\* well-formed digest differs from the actual one, independently of each other.
C4_EntryVerification ==
    (Verified /\ EntryHasPath) =>
        /\ ~Exists(files, EntryPath) =>
              /\ out.status = "returned"
              /\ Count(out.errors, IsFileMissing) = 1
              /\ Count(out.errors, IsSizeOrDigestError) = 0
        /\ IsFile(files, EntryPath) =>
              /\ out.status = "returned"
              /\ Count(out.errors, IsFileMissing) = 0
              /\ Count(out.errors, IsBytesMismatch) =
                    (IF isinstance_int(Get(loaded, "bytes"))
                        /\ Get(loaded, "bytes").n # Len(files[EntryPath].data) THEN 1 ELSE 0)
              /\ Count(out.errors, IsSha256Mismatch) =
                    (IF Get(loaded, "sha256").t = "str"
                        /\ SHA256_RE_match(Get(loaded, "sha256").s)
                        /\ Get(loaded, "sha256").s # sha256_file(files[EntryPath].data)
                     THEN 1 ELSE 0)

\* The same statement for the entries whose redaction_profile can be hashed: it
\* holds there, and a truncated file gives one size and one digest mismatch.
C4_HashableProfile ==
    ~(pc = "artifact" /\ Unhashable(Get(loaded, "redaction_profile"))) => C4_EntryVerification

C4_TruncatedWitness ==
    /\ Verified /\ EntryHasPath /\ IsFile(files, EntryPath)
    /\ prev # files
    /\ Get(loaded, "bytes") = JInt(Len(prev[EntryPath].data))
    /\ Get(loaded, "sha256") = JStr(sha256_file(prev[EntryPath].data))
    /\ Count(out.errors, IsBytesMismatch) = 1 /\ Count(out.errors, IsSha256Mismatch) = 1

----------------------------------------------------------------------------
(* The validators' main(): load the manifest file, validate, report *)

\* the schema outcomes the runs of a specification draw from
RunSchemaOutcomes == {"unavailable", "valid", "invalid"}

\* validate_fixture_manifest.main()
RunFixtureValidator(schemas) ==
    /\ out.status = "none"
    /\ LET r == load_json(files, mpath) IN
       IF ~r.ok THEN loaded' = JNull /\ out' = HardError(r.why)
       ELSE /\ loaded' = r.v
            /\ \E schema \in schemas :
                 out' = FromCall(fixture_validate_manifest(r.v, mpath, files, schema))
    /\ exit' = main_exit(out', <<>>)
    /\ pc' = "fixture"
    /\ UNCHANGED <<files, mpath, text, prev, hist>>

\* validate_e2e_manifest.main()
RunE2EValidator(schemas) ==
    /\ out.status = "none"
    /\ LET r == load_json(files, mpath) IN
       IF ~r.ok THEN loaded' = JNull /\ out' = HardError(r.why)
       ELSE /\ loaded' = r.v
            /\ \E schema \in schemas :
                 out' = FromCall(e2e_validate_manifest(r.v, mpath, files, schema))
    /\ exit' = main_exit(out', <<"OK: " \o RenderPath(mpath)>>)
    /\ pc' = "e2e"
    /\ UNCHANGED <<files, mpath, text, prev, hist>>

\* validate_capabilities_manifest.main()
RunCapabilitiesValidator(schemas) ==
    /\ out.status = "none"
    /\ LET r == load_json(files, mpath) IN
       IF ~r.ok THEN loaded' = JNull /\ out' = HardError(r.why)
       ELSE /\ loaded' = r.v
            /\ \E schema \in schemas :
                 out' = FromCall(capabilities_validate_manifest(r.v, schema))
    /\ exit' = main_exit(out', <<>>)
    /\ pc' = "capabilities"
    /\ UNCHANGED <<files, mpath, text, prev, hist>>

----------------------------------------------------------------------------
(* Capture of a fixture directory, then validation of the manifest written *)

CaptureFileSystems ==
    {[q \in PathSet |->
        CASE q = <<"fx", "a.json">> -> a
          [] q = <<"fx", "policy.json">> -> b
          [] q = <<"fx", "sub", "run.jsonl">> -> c
          [] OTHER -> NoFile] :
     a \in {NoFile} \cup {File(d) : d \in Contents},
     b \in {File(<<Byte(0)>>)},
     c \in {NoFile, File(<<Byte(1)>>)}}

OutputPaths ==
    {FixtureDir \o <<"fixture_manifest.json">>, FixtureDir \o <<"sub", "m.json">>,
     <<"elsewhere", "m.json">>}
LogPaths == {<<>>, FixtureDir \o <<"logs", "fixture_capture.jsonl">>}
ExcludeSets == {{}, {"*.jsonl"}, {"*"}}
Commands ==
    {<<>>,
     <<W("pt"), W("--id") \o W(" ") \o Uuid(Hx(8), Hx(4), Hx(4), Hx(4), Hx(12))>>}
SourcePaths == {<<>>, <<W("/") \o W("Users") \o W("/") \o W("alice") \o W("/") \o W("project")>>}
Descriptions == {<<>>, W("demo")}
ToolVersionArgs ==
    {<<>>, <<<<W("pt"), Version(2, 0, 0)>>>>, <<<<W("artifacts"), <<>>>>>>}
CaptureProfiles == {W("safe"), W("forensic")}

CaptureInit ==
    /\ pc = "start"
    /\ files \in CaptureFileSystems
    /\ loaded = JNull
    /\ mpath = <<>>
    /\ out = NotRun
    /\ text = <<>>
    /\ prev = JNull
    /\ hist = <<>>
    /\ exit = Running

\* fixture_capture.main()
Capture ==
    /\ pc = "start"
    /\ \E output_path \in OutputPaths, log_path \in LogPaths, excludes \in ExcludeSets,
          command \in Commands, source_paths \in SourcePaths, description \in Descriptions,
          tool_version \in ToolVersionArgs, redaction_profile \in CaptureProfiles :
         IF \E i \in DOMAIN tool_version : ~ToolVersionOk(tool_version[i])
         THEN /\ pc' = "capture failed"
              /\ UNCHANGED <<files, loaded, mpath, out, text, prev, hist, exit>>
         ELSE LET artifacts == gather_artifacts(files, FixtureDir, excludes, output_path,
                                                log_path, redaction_profile)
                  manifest == build_manifest(W("fixture-1"), W("demo"), description,
                                             W("2026-01-15T10:30:00") \o W("Z"), W("manual"),
                                             command, source_paths,
                                             parse_tool_versions(tool_version),
                                             redaction_profile, artifacts)
                  written == write_manifest(files, output_path, manifest)
              IN /\ files' = IF log_path = <<>> THEN written
                             ELSE write_log(written, log_path, W("fixture_capture"),
                                            W("fixture-1"), artifacts, <<>>)
                 /\ mpath' = output_path
                 /\ prev' = manifest
                 /\ pc' = "captured"
                 /\ UNCHANGED <<loaded, out, text, hist, exit>>

CaptureNext ==
    Capture \/ (pc = "captured" /\ RunFixtureValidator({"unavailable", "invalid"}))

SpecCapture == CaptureInit /\ [][CaptureNext]_vars

\* C1: the digest build_manifest stores is the digest the validator recomputes, so
\* the validator reports neither a manifest_sha256 mismatch nor a malformed digest
\* for a manifest build_manifest returned.
C1_HashClosure ==
    /\ pc = "captured" =>
          /\ isinstance_str(Get(prev, "manifest_sha256"))
          /\ SHA256_RE_match(Get(prev, "manifest_sha256").s)
          /\ Get(prev, "manifest_sha256").s
                = sha256_bytes(fixture_canonical_manifest_bytes(Pop(prev, "manifest_sha256")))
          /\ FixtureHashCheck(prev) = <<>>
    /\ (pc = "fixture" /\ out.status = "returned") =>
          /\ loaded = prev
          /\ ~Contains(out.errors, "manifest_sha256 mismatch")
          /\ ~Contains(out.errors, "manifest_sha256 must be sha256 hex")

C1_Witness ==
    /\ pc = "fixture" /\ out.status = "returned"
    /\ Has(Get(loaded, "source"), "command") /\ Has(loaded, "description")
    /\ Len(Get(loaded, "artifacts").c) > 1
    /\ Len(Get(loaded, "tool_versions").c) > 1

\* the errors validate_artifact_entry gives for the entries of the loaded manifest
ArtifactEntryErrors ==
    Chain([i \in DOMAIN Get(loaded, "artifacts").c |->
              validate_artifact_entry(Get(loaded, "artifacts").c[i].v, Parent(mpath), files)])

\* C5 (as stated): after a capture with any output path, log path and excludes, the
\* fixture validator run on the manifest written reports no artifact error.
C5_CaptureRoundTrip ==
    (pc = "fixture" /\ prev # JNull) =>
        /\ out.status = "returned"
        /\ ArtifactEntryErrors = Ok(<<>>)
        /\ ~ \E i \in DOMAIN out.errors, q \in PathSet :
               out.errors[i] = "artifact file missing: " \o RenderPath(q)

----------------------------------------------------------------------------
(* A sealed manifest on disk is edited, then validated *)

MaxReorders == 1

\* the value a path of member indices leads to
RECURSIVE ValueAt(_, _)
ValueAt(v, p) == IF p = <<>> THEN v ELSE ValueAt(v.c[p[1]].v, Tail(p))

RECURSIVE ReplaceAt(_, _, _)
ReplaceAt(v, p, w) ==
    IF p = <<>> THEN w
    ELSE [v EXCEPT !.c[p[1]].v = ReplaceAt(v.c[p[1]].v, Tail(p), w)]

\* del container[key]
RECURSIVE RemoveMember(_, _)
RemoveMember(v, p) ==
    IF Len(p) = 1 THEN [v EXCEPT !.c = RemoveAt(v.c, p[1])]
    ELSE [v EXCEPT !.c[p[1]].v = RemoveMember(v.c[p[1]].v, Tail(p))]

RECURSIVE MemberPaths(_)
MemberPaths(v) ==
    UNION {{<<i>> \o q : q \in {<<>>} \cup MemberPaths(v.c[i].v)} : i \in DOMAIN v.c}

ContainerPaths(v) == {p \in {<<>>} \cup MemberPaths(v) : Unhashable(ValueAt(v, p))}

\* container["extra"] = w, or list.append(w)
AddMember(v, p, w) ==
    LET d == ValueAt(v, p) IN
    ReplaceAt(v, p, IF isinstance_dict(d) THEN Put(d, "extra", w)
                    ELSE [d EXCEPT !.c = Append(d.c, [k |-> "", v |-> w])])

\* the same dict built with members i and i+1 inserted the other way round
SwapMembers(v, p, i) ==
    LET d == ValueAt(v, p) IN
    ReplaceAt(v, p, [d EXCEPT !.c = [d.c EXCEPT ![i] = d.c[i + 1], ![i + 1] = d.c[i]]])

TamperValues ==
    {JNull, JBool(TRUE), JInt(7), JStr(W("x")), JList(<<JStr(W("safe"))>>), JDict(<<>>)}

RunLine == Dumps(JDict(<<<<"run_id", JStr(W("run-1"))>>>>), FALSE) \o <<Tok("nl")>>

SealedFiles ==
    [q \in PathSet |->
        CASE q = <<"fx", "a.json">> -> File(<<Byte(0)>>)
          [] q = <<"fx", "policy.json">> -> File(<<Byte(1)>>)
          [] q = <<"fx", "sub", "run.jsonl">> -> File(RunLine)
          [] OTHER -> NoFile]

SealedPath == FixtureDir \o <<"fixture_manifest.json">>

Stamp == W("2026-01-15T10:30:00") \o W("Z")

FileEntry(fs, rel, more) ==
    JDict(<<<<"path", JStr(as_posix(rel))>>,
            <<"sha256", JStr(sha256_file(fs[FixtureDir \o rel].data))>>,
            <<"bytes", JInt(st_size(fs, FixtureDir \o rel))>>>> \o more)

\* a fixture manifest as the capture script seals it
SealedFixture ==
    build_manifest(W("fixture-1"), W("demo"), W("demo"), Stamp, W("manual"),
                   <<W("pt"), W("scan")>>, <<>>,
                   parse_tool_versions(<<<<W("pt"), Version(2, 0, 0)>>>>), W("safe"),
                   gather_artifacts(SealedFiles, FixtureDir, {}, SealedPath, <<>>, W("safe")))

\* an end-to-end manifest sealed as validate_e2e_manifest recomputes the digest
E2EBody ==
    JDict(<<<<"schema_version", JStr(Version(1, 0, 0))>>,
            <<"run_id", JStr(W("run-1"))>>,
            <<"suite", JStr(W("e2e"))>>,
            <<"test_id", JStr(W("t1"))>>,
            <<"timestamp", JStr(Stamp)>>,
            <<"env", JDict(<<<<"os", JStr(W("linux"))>>, <<"arch", JStr(W("x86_64"))>>,
                             <<"kernel", JStr(W("6.1"))>>,
                             <<"ci_provider", JStr(W("none"))>>>>)>>,
            <<"commands", JList(<<JDict(<<<<"argv", JList(<<JStr(W("pt"))>>)>>,
                                          <<"exit_code", JInt(0)>>,
                                          <<"duration_ms", JInt(5)>>>>)>>)>>,
            <<"logs", JList(<<FileEntry(SealedFiles, <<"sub", "run.jsonl">>,
                                        <<<<"kind", JStr(W("jsonl"))>>>>)>>)>>,
            <<"artifacts", JList(<<FileEntry(SealedFiles, <<"a.json">>,
                                             <<<<"kind", JStr(W("snapshot"))>>,
                                               <<"redaction_profile", JStr(W("safe"))>>>>)>>)>>,
            <<"metrics", JDict(<<>>)>>>>)

SealedE2E ==
    Put(E2EBody, "manifest_sha256", JStr(sha256_bytes(e2e_canonical_manifest_bytes(E2EBody))))

IsDigestMember(v, p) == Len(p) = 1 /\ v.c[p[1]].k = "manifest_sha256"

TamperInit ==
    /\ pc = "sealed"
    /\ loaded \in {SealedFixture, SealedE2E}
    /\ prev = loaded
    /\ mpath = SealedPath
    /\ files = write_manifest(SealedFiles, SealedPath, loaded)
    /\ out = NotRun
    /\ text = <<>>
    /\ hist = <<>>
    /\ exit = Running

\* the document is rebuilt with two neighbouring keys of one dict swapped
Reorder ==
    /\ pc \in {"sealed", "reordered"}
    /\ Len(hist) < MaxReorders
    /\ \E p \in ContainerPaths(loaded) :
         /\ isinstance_dict(ValueAt(loaded, p))
         /\ \E i \in 1 .. Len(ValueAt(loaded, p).c) - 1 :
              loaded' = SwapMembers(loaded, p, i)
    /\ files' = write_manifest(files, mpath, loaded')
    /\ pc' = "reordered"
    /\ hist' = Append(hist, "reorder")
    /\ UNCHANGED <<mpath, out, text, prev, exit>>

\* one field other than the top-level manifest_sha256 is changed, removed or added
Tamper ==
    /\ pc = "sealed"
    /\ \/ \E p \in MemberPaths(loaded), w \in TamperValues :
            /\ ~IsDigestMember(loaded, p)
            /\ ValueAt(loaded, p) # w
            /\ loaded' = ReplaceAt(loaded, p, w)
       \/ \E p \in MemberPaths(loaded) :
            /\ ~IsDigestMember(loaded, p)
            /\ loaded' = RemoveMember(loaded, p)
       \/ \E p \in ContainerPaths(loaded), w \in TamperValues :
            loaded' = AddMember(loaded, p, w)
    /\ files' = write_manifest(files, mpath, loaded')
    /\ pc' = "tampered"
    /\ hist' = Append(hist, "tamper")
    /\ UNCHANGED <<mpath, out, text, prev, exit>>

TamperNext ==
    \/ Reorder
    \/ Tamper
    \/ (Has(prev, "fixture_id") /\ RunFixtureValidator(RunSchemaOutcomes))
    \/ (Has(prev, "run_id") /\ RunE2EValidator(RunSchemaOutcomes))

SpecTamper == TamperInit /\ [][TamperNext]_vars

Tampered == \E i \in DOMAIN hist : hist[i] = "tamper"

ReportsMismatch ==
    \/ Contains(out.errors, "manifest_sha256 mismatch")
    \/ \E i \in DOMAIN E2EHashCheck(loaded) :
         /\ E2EHashCheck(loaded)[i] # "manifest_sha256 not sha256 hex"
         /\ Contains(out.errors, E2EHashCheck(loaded)[i])

\* C2 (as stated): after any change to a field other than the top-level
\* manifest_sha256 of a sealed manifest, the fixture validator and the end-to-end
\* validator each return an error list holding a manifest_sha256 mismatch.
C2_TamperDetection ==
    (pc \in {"fixture", "e2e"} /\ Tampered) =>
        (out.status = "returned" /\ ReportsMismatch)

\* the same, for the runs in which validate_manifest returns
C2_TamperDetectedWhenReturned ==
    (pc \in {"fixture", "e2e"} /\ Tampered /\ out.status = "returned") => ReportsMismatch

\* a sealed manifest, reordered or not, validates without any error
SealedValidates ==
    (pc \in {"fixture", "e2e"} /\ ~Tampered /\ out.status = "returned") =>
        \A i \in DOMAIN out.errors :
            out.errors[i] = "schema validation failed: <message>"

\* C3: documents that differ only in the insertion order of keys, at any nesting
\* level, have the same canonical bytes, and the capture script, the fixture
\* validator and the end-to-end validator compute the same bytes for a document.
C3_KeyOrderIndependence ==
    (isinstance_dict(loaded) /\ isinstance_dict(prev)) =>
        /\ capture_canonical_manifest_bytes(loaded) = fixture_canonical_manifest_bytes(loaded)
        /\ fixture_canonical_manifest_bytes(loaded) = e2e_canonical_manifest_bytes(loaded)
        /\ ~Tampered =>
              /\ capture_canonical_manifest_bytes(loaded) = capture_canonical_manifest_bytes(prev)
              /\ fixture_canonical_manifest_bytes(loaded) = fixture_canonical_manifest_bytes(prev)
              /\ e2e_canonical_manifest_bytes(loaded) = e2e_canonical_manifest_bytes(prev)

\* a key order changed inside a nested object
C3_Witness ==
    /\ pc = "reordered" /\ ~Tampered
    /\ \E i \in DOMAIN loaded.c :
         /\ loaded.c[i].k = prev.c[i].k
         /\ loaded.c[i].v # prev.c[i].v
    /\ Dumps(loaded, FALSE) # Dumps(prev, FALSE)

----------------------------------------------------------------------------
(* Manifests with fields missing or of the wrong type, manifest files that *)
(* are missing or hold something else than a JSON object                   *)

MaxRemoved == 2

SealedCapabilities ==
    JDict(<<<<"schema_version", JStr(Version(1, 0, 0))>>,
            <<"os", JDict(<<<<"family", JStr(W("linux"))>>>>)>>,
            <<"tools", JDict(<<>>)>>,
            <<"user", JDict(<<<<"uid", JInt(7)>>, <<"username", JStr(W("alice"))>>,
                              <<"home", JStr(W("x"))>>>>)>>,
            <<"paths", JDict(<<<<"config_dir", JStr(W("x"))>>,
                               <<"data_dir", JStr(W("x"))>>>>)>>,
            <<"discovered_at", JStr(Stamp)>>>>)

IsFixtureDoc == Has(prev, "fixture_id")
IsE2EDoc == Has(prev, "run_id")
IsCapabilitiesDoc == Has(prev, "discovered_at")

\* the required top-level keys of the kind of the sealed document
Required ==
    IF IsFixtureDoc THEN FixtureRequired
    ELSE IF IsE2EDoc THEN E2ERequired ELSE CapabilitiesRequired

\* manifest_sha256 set again to the digest of the rest of the document
Reseal(doc) ==
    IF Has(doc, "manifest_sha256")
    THEN Put(doc, "manifest_sha256",
             JStr(IF IsE2EDoc THEN sha256_bytes(e2e_canonical_manifest_bytes(doc))
                  ELSE ManifestDigest(doc)))
    ELSE doc

\* the top-level fields whose type validate_manifest checks with isinstance
TypeChecked ==
    IF IsFixtureDoc THEN {"fixture_id", "capture_time", "source"}
    ELSE IF IsE2EDoc THEN {"suite", "timestamp", "env"}
    ELSE {"schema_version", "user", "discovered_at"}

\* file contents that are not a JSON object
NotAnObject ==
    {NoFile, File(<<Byte(0)>>), File(Dumps(JList(<<>>), FALSE)),
     File(Dumps(JStr(W("x")), FALSE)), File(Dumps(JInt(3), FALSE)),
     File(Dumps(JNull, FALSE))}

\* lines of a JSONL log that are not an object carrying the run id
OtherLogLines ==
    {<<IntTok(1), Tok("nl")>>, <<Byte(0), Tok("nl")>>,
     Dumps(JDict(<<<<"run_id", JStr(W("run-2"))>>>>), FALSE) \o <<Tok("nl")>>}

FieldsInit ==
    /\ pc = "sealed"
    /\ loaded \in {SealedFixture, SealedE2E, SealedCapabilities}
    /\ prev = loaded
    /\ mpath = SealedPath
    /\ files = write_manifest(SealedFiles, SealedPath, loaded)
    /\ out = NotRun
    /\ text = <<>>
    /\ hist = <<>>
    /\ exit = Running

\* a top-level field is given an integer value
BreakType ==
    /\ pc = "sealed" /\ hist = <<>>
    /\ \E key \in TypeChecked : loaded' = Reseal(Put(loaded, key, JInt(5)))
    /\ files' = write_manifest(files, mpath, loaded')
    /\ pc' = "edited"
    /\ hist' = Append(hist, "type")
    /\ UNCHANGED <<mpath, out, text, prev, exit>>

\* a required top-level field is removed
RemoveField ==
    /\ pc \in {"sealed", "edited"}
    /\ Occurrences(hist, "remove") < MaxRemoved
    /\ ~Contains(hist, "file") /\ ~Contains(hist, "log")
    /\ \E i \in DOMAIN Required :
         /\ Has(loaded, Required[i])
         /\ loaded' = Reseal(Pop(loaded, Required[i]))
    /\ files' = write_manifest(files, mpath, loaded')
    /\ pc' = "edited"
    /\ hist' = Append(hist, "remove")
    /\ UNCHANGED <<mpath, out, text, prev, exit>>

\* the manifest file is deleted, or rewritten with something that is not an object
ReplaceFile ==
    /\ pc = "sealed" /\ hist = <<>>
    /\ \E f \in NotAnObject : files' = [files EXCEPT ![mpath] = f]
    /\ pc' = "edited"
    /\ hist' = Append(hist, "file")
    /\ UNCHANGED <<loaded, mpath, out, text, prev, exit>>

\* the JSONL log the end-to-end manifest lists is rewritten
RewriteLog ==
    /\ pc = "sealed" /\ hist = <<>> /\ IsE2EDoc
    /\ \E data \in OtherLogLines :
         files' = [files EXCEPT ![FixtureDir \o <<"sub", "run.jsonl">>] = File(data)]
    /\ pc' = "edited"
    /\ hist' = Append(hist, "log")
    /\ UNCHANGED <<loaded, mpath, out, text, prev, exit>>

FieldsNext ==
    \/ BreakType
    \/ RemoveField
    \/ ReplaceFile
    \/ RewriteLog
    \/ (IsFixtureDoc /\ RunFixtureValidator(SchemaOutcomes))
    \/ (IsE2EDoc /\ RunE2EValidator(SchemaOutcomes))
    \/ (IsCapabilitiesDoc /\ RunCapabilitiesValidator(SchemaOutcomes))

SpecFields == FieldsInit /\ [][FieldsNext]_vars

Ran == pc \in {"fixture", "e2e", "capabilities"}

MissingMessage(key) == "missing required field: " \o key

\* the entries of the returned list that report a missing required key
MissingEntries ==
    SelectSeq(out.errors, LAMBDA e : \E i \in DOMAIN Required : e = MissingMessage(Required[i]))

\* one entry per absent required key, in the declared order
ExpectedMissing ==
    LET absent == SelectSeq(Required, LAMBDA key : ~Has(loaded, key))
    IN [i \in DOMAIN absent |-> MissingMessage(absent[i])]

SchemaEntries ==
    SelectSeq(out.errors, LAMBDA e : e \in {"schema validation failed: <message>",
                                             "schema validation error: <exception>"})

\* C8 (as stated): a manifest that is otherwise valid, lacks two required
\* top-level fields and has one field of the wrong type gets exactly three entries
\* in the list validate_manifest returns.
C8_ThreeErrors ==
    (/\ Ran /\ isinstance_dict(loaded)
     /\ Len(ExpectedMissing) = 2
     /\ Cardinality({key \in TypeChecked : Get(loaded, key) = JInt(5)}) = 1
     /\ ~Contains(hist, "log") /\ SchemaEntries = <<>>)
    => (out.status = "returned" /\ Len(out.errors) = 3)

\* C9: the returned list holds exactly one 'missing required field' entry for
\* every absent required key, none for a key that is present, and the entries
\* stand in the order the kind declares its keys.
C9_RequiredFields ==
    (Ran /\ out.status = "returned") => MissingEntries = ExpectedMissing

C9_Witness ==
    /\ Ran /\ out.status = "returned"
    /\ Len(ExpectedMissing) = 2
    /\ Len(out.errors) > Len(MissingEntries)

\* C10 (as stated): a validator aborts without an error list exactly when the
\* manifest file is missing or is not valid JSON; whenever the file parses,
\* validate_manifest returns a list of errors.
C10_HardVersusSoft ==
    Ran => IF load_json(files, mpath).ok THEN out.status = "returned"
           ELSE out.status = "hard"

\* validate_manifest of the validator that ran, on the document it loaded
ValidateLoaded(schema) ==
    CASE pc = "fixture" -> FromCall(fixture_validate_manifest(loaded, mpath, files, schema))
      [] pc = "e2e" -> FromCall(e2e_validate_manifest(loaded, mpath, files, schema))
      [] OTHER -> FromCall(capabilities_validate_manifest(loaded, schema))

SchemaViolation == "schema validation failed: <message>"

\* C14: without the jsonschema package validate_manifest gives what it gives
\* with the package accepting the document; when the package reports a
\* violation, that one entry is added and every other check gives what it gave.
C14_SoftSchema ==
    (Ran /\ out.status # "hard") =>
        LET without == ValidateLoaded("unavailable")
            valid == ValidateLoaded("valid")
            invalid == ValidateLoaded("invalid")
        IN /\ without = valid
           /\ out \in {ValidateLoaded(schema) : schema \in SchemaOutcomes}
           /\ valid.status = "returned"
                => invalid = Returned(<<SchemaViolation>> \o valid.errors)
           /\ valid.status = "raised" => invalid = valid

C14_Witness ==
    /\ Ran /\ out.status = "returned"
    /\ out = ValidateLoaded("invalid")
    /\ Len(out.errors) > 1
    /\ ValidateLoaded("unavailable") = Returned(Tail(out.errors))

\* the run ended before validate_manifest returned: SystemExit from load_json,
\* or an exception no handler catches
Aborted == out.status \in {"hard", "raised"}

----------------------------------------------------------------------------
(* Sealed manifests in which one value is set to something else: the lines *)
(* of the JSONL log, an artifact's kind or redaction_profile, the digest   *)

MaxLogLines == 2

\* one line of a log, without its newline
LogLines ==
    {Dumps(JDict(<<<<"run_id", JStr(W("run-1"))>>>>), FALSE),
     Dumps(JDict(<<<<"run_id", JStr(W("run-2"))>>>>), FALSE),
     Dumps(JDict(<<>>), FALSE),
     <<IntTok(1)>>,
     <<Byte(0)>>,
     <<>>}

JoinLines(ls) == Flat([i \in DOMAIN ls |-> ls[i] \o <<Tok("nl")>>])

LogContents == {JoinLines(ls) : ls \in SeqsUpTo(LogLines, MaxLogLines)}

RunIds == {W("run-1"), <<>>}

LogPath == FixtureDir \o <<"sub", "run.jsonl">>

ValuesInit ==
    /\ pc = "sealed"
    /\ loaded \in {SealedFixture, SealedE2E}
    /\ prev = loaded
    /\ mpath = SealedPath
    /\ files = write_manifest(SealedFiles, SealedPath, loaded)
    /\ out = NotRun
    /\ text = <<>>
    /\ hist = <<>>
    /\ exit = Running

\* the log is written anew and the manifest sealed for it, under some run_id
RewriteJsonl ==
    /\ pc = "sealed" /\ IsE2EDoc
    /\ \E data \in LogContents, run_id \in RunIds :
         LET fs == [files EXCEPT ![LogPath] = File(data)]
             entry == FileEntry(fs, <<"sub", "run.jsonl">>, <<<<"kind", JStr(W("jsonl"))>>>>)
         IN /\ loaded' = Reseal(Put(Put(loaded, "run_id", JStr(run_id)),
                                    "logs", JList(<<entry>>)))
            /\ files' = write_manifest(fs, mpath, loaded')
    /\ pc' = "edited"
    /\ hist' = Append(hist, "log")
    /\ UNCHANGED <<mpath, out, text, prev, exit>>

\* a key that is left out of an object
Absent == [t |-> "absent", s |-> <<>>, n |-> 0, c |-> <<>>]

\* d[key] = value, or del d[key]
SetOrDrop(d, key, value) == IF value = Absent THEN Pop(d, key) ELSE Put(d, key, value)

KindValues ==
    {JStr(W("snapshot")), JStr(W("report")), JStr(W("manifest")), JStr(W("other")),
     JStr(W("bogus")), JInt(1), JList(<<JStr(W("snapshot"))>>), Absent}

ProfileValues ==
    {JStr(W("safe")), JStr(W("custom")), JStr(W("bogus")), JStr(<<>>),
     JList(<<JStr(W("safe"))>>), Absent}

\* the first entry of the artifacts list
FirstArtifact(doc) == Get(doc, "artifacts").c[1].v

WithFirstArtifact(doc, entry) ==
    Put(doc, "artifacts", [Get(doc, "artifacts") EXCEPT !.c[1].v = entry])

\* an artifact of the end-to-end manifest gets another kind and redaction_profile
SetArtifactKind ==
    /\ pc = "sealed" /\ IsE2EDoc
    /\ \E kind \in KindValues, profile \in ProfileValues :
         loaded' = Reseal(WithFirstArtifact(loaded,
                       SetOrDrop(SetOrDrop(FirstArtifact(loaded), "kind", kind),
                                 "redaction_profile", profile)))
    /\ files' = write_manifest(files, mpath, loaded')
    /\ pc' = "edited"
    /\ hist' = Append(hist, "kind")
    /\ UNCHANGED <<mpath, out, text, prev, exit>>

\* the fixture manifest, or its first artifact, gets another redaction_profile
SetProfile ==
    /\ pc = "sealed" /\ IsFixtureDoc
    /\ \E profile \in ProfileValues :
         \/ loaded' = Reseal(SetOrDrop(loaded, "redaction_profile", profile))
         \/ loaded' = Reseal(WithFirstArtifact(loaded,
                          SetOrDrop(FirstArtifact(loaded), "redaction_profile", profile)))
    /\ files' = write_manifest(files, mpath, loaded')
    /\ pc' = "edited"
    /\ hist' = Append(hist, "profile")
    /\ UNCHANGED <<mpath, out, text, prev, exit>>

\* values for manifest_sha256: three strings that are not 64 lowercase hex
\* characters, the digest of other bytes, two values that are no string, no value
DigestValues ==
    {JStr(W("xyz")), JStr(HxU(Sha256Len)), JStr(Hx(Sha256Len - 1)),
     JStr(sha256_bytes(<<>>)), JInt(5), JNull, Absent}

\* the manifest_sha256 of a sealed manifest is set to another value, or removed
SetDigest ==
    /\ pc = "sealed"
    /\ \E digest \in DigestValues :
         loaded' = SetOrDrop(loaded, "manifest_sha256", digest)
    /\ files' = write_manifest(files, mpath, loaded')
    /\ pc' = "edited"
    /\ hist' = Append(hist, "digest")
    /\ UNCHANGED <<mpath, out, text, prev, exit>>

HomeText == <<Atom("/", 0), Atom("home", 0), Atom("/", 0), Atom("alice", 0)>>

\* values for source.paths and source.command that hold something unredacted
LeakValues ==
    {<<"paths", JList(<<JStr(HomeText)>>)>>,
     <<"command", JList(<<JStr(W("pt")), JStr(Hx(HexIdMin))>>)>>}

\* values for an artifact entry that its file does not bear out
BrokenValues ==
    {<<"path", JStr(W("x"))>>, <<"sha256", JStr(sha256_bytes(<<>>))>>}

\* a sealed manifest is edited by hand and not sealed again: a source field
\* gets an unredacted value (fixture), the first artifact a path or digest
\* that does not fit its file, or both
EditUnsealed ==
    /\ pc = "sealed"
    /\ \E leak \in LeakValues \cup {<<>>}, broken \in BrokenValues \cup {<<>>} :
         /\ leak # <<>> \/ broken # <<>>
         /\ leak # <<>> => IsFixtureDoc
         /\ LET leaked == IF leak = <<>> THEN loaded
                          ELSE Put(loaded, "source", Put(Get(loaded, "source"), leak[1], leak[2]))
            IN loaded' = IF broken = <<>> THEN leaked
                         ELSE WithFirstArtifact(leaked,
                                  Put(FirstArtifact(leaked), broken[1], broken[2]))
    /\ files' = write_manifest(files, mpath, loaded')
    /\ pc' = "edited"
    /\ hist' = Append(hist, "unsealed")
    /\ UNCHANGED <<mpath, out, text, prev, exit>>

ValuesNext ==
    \/ RewriteJsonl
    \/ SetArtifactKind
    \/ SetProfile
    \/ SetDigest
    \/ EditUnsealed
    \/ (IsFixtureDoc /\ RunFixtureValidator(RunSchemaOutcomes))
    \/ (IsE2EDoc /\ RunE2EValidator(RunSchemaOutcomes))

SpecValues == ValuesInit /\ [][ValuesNext]_vars

\* the log entries of kind jsonl whose file exists
JsonlEntries ==
    LET logs == Get(loaded, "logs") IN
    {i \in DOMAIN logs.c :
        LET e == logs.c[i].v IN
        /\ isinstance_dict(e) /\ Get(e, "kind") = JStr(W("jsonl"))
        /\ isinstance_str(Get(e, "path")) /\ Get(e, "path").s # <<>>
        /\ IsFile(files, Resolve(Parent(mpath), Get(e, "path").s))}

ParseErrorAt(path_value, idx) ==
    "jsonl parse error in " \o Render(path_value) \o " line " \o ToString(idx)
RunIdMismatchAt(path_value, idx) ==
    "jsonl run_id mismatch in " \o Render(path_value) \o " line " \o ToString(idx)

\* what the claim expects for one line: "parse", "mismatch" or "none"
ExpectedForLine(line) ==
    IF line = <<>> THEN "none"
    ELSE IF ~Loads(line).ok THEN "parse"
    ELSE IF isinstance_dict(Loads(line).v)
            /\ Get(Loads(line).v, "run_id") = Get(loaded, "run_id") THEN "none"
    ELSE "mismatch"

\* C11 (as stated): for every log entry of kind jsonl whose file exists, a
\* non-blank line that is not JSON gives exactly one parse error with its line
\* number, a line that parses and whose run_id differs from the manifest's gives
\* exactly one run_id mismatch with its line number, any other line gives neither,
\* to the end of the file.
C11_JsonlRunId ==
    (pc = "e2e" /\ isinstance_dict(loaded) /\ isinstance_list(Get(loaded, "logs"))) =>
        \A i \in JsonlEntries :
            LET path_value == Get(Get(loaded, "logs").c[i].v, "path").s
                lines == SplitLines(files[Resolve(Parent(mpath), path_value)].data, <<>>)
            IN /\ out.status = "returned"
               /\ \A idx \in DOMAIN lines :
                    /\ Occurrences(out.errors, ParseErrorAt(path_value, idx))
                          = (IF ExpectedForLine(lines[idx]) = "parse" THEN 1 ELSE 0)
                    /\ Occurrences(out.errors, RunIdMismatchAt(path_value, idx))
                          = (IF ExpectedForLine(lines[idx]) = "mismatch" THEN 1 ELSE 0)

\* the same for the logs whose lines are JSON objects, blank or not JSON, under a
\* manifest with a non-empty run_id
C11_ObjectLines ==
    (/\ pc = "e2e" /\ isinstance_dict(loaded) /\ isinstance_list(Get(loaded, "logs"))
     /\ isinstance_str(Get(loaded, "run_id")) /\ Get(loaded, "run_id").s # <<>>
     /\ out.status = "returned")
    => C11_JsonlRunId

\* the artifact entries of the loaded manifest that are objects
ArtifactObjects ==
    IF isinstance_dict(loaded) /\ isinstance_list(Get(loaded, "artifacts"))
    THEN {Get(loaded, "artifacts").c[i].v : i \in DOMAIN Get(loaded, "artifacts").c}
         \cap {e \in {Get(loaded, "artifacts").c[i].v : i \in DOMAIN Get(loaded, "artifacts").c} :
                 isinstance_dict(e)}
    ELSE {}

KindIn(e, kinds) == isinstance_str(Get(e, "kind")) /\ Get(e, "kind").s \in kinds

MissingProfileMessage(e) ==
    "artifact " \o Show(Get(e, "path")) \o " missing redaction_profile"

\* C12 (as stated): an end-to-end artifact whose kind is outside the declared set
\* gets an 'artifact kind invalid' error; one of kind snapshot, plan, telemetry,
\* bundle or report without a non-empty redaction_profile gets a 'missing
\* redaction_profile' error; one of another declared kind without a
\* redaction_profile gets no such error.
C12_ArtifactKindRules ==
    pc = "e2e" =>
        \A e \in ArtifactObjects :
            /\ ~KindIn(e, ARTIFACT_KINDS) =>
                  /\ out.status = "returned"
                  /\ Contains(out.errors, "artifact kind invalid: " \o Show(Get(e, "kind")))
            /\ (KindIn(e, REDACTION_REQUIRED_KINDS) /\ ~Truthy(Get(e, "redaction_profile"))) =>
                  /\ out.status = "returned"
                  /\ Contains(out.errors, MissingProfileMessage(e))
            /\ (KindIn(e, ARTIFACT_KINDS \ REDACTION_REQUIRED_KINDS)
                  /\ ~Has(e, "redaction_profile")) =>
                  ~Contains(out.errors, MissingProfileMessage(e))

\* the same for the runs in which validate_manifest returns
C12_WhenReturned == out.status = "returned" => C12_ArtifactKindRules

\* a redaction_profile outside minimal/safe/forensic/custom in the loaded manifest
HasBadProfile ==
    \/ /\ pc = "fixture"
       /\ \/ NotInProfiles(Get(loaded, "redaction_profile"))
          \/ \E e \in ArtifactObjects : NotInProfiles(Get(e, "redaction_profile"))
    \/ /\ pc = "e2e"
       /\ \E e \in ArtifactObjects :
            Has(e, "redaction_profile") /\ NotInProfiles(Get(e, "redaction_profile"))

\* C13 (as stated): a redaction_profile that is not one of minimal, safe, forensic,
\* custom, as the fixture manifest's field, a fixture artifact's field or an
\* end-to-end artifact's field, makes the validator return an error.
C13_ProfileEnum ==
    (pc \in {"fixture", "e2e"} /\ isinstance_dict(loaded) /\ HasBadProfile) =>
        (out.status = "returned" /\ out.errors # <<>>)

\* the same for the fixture validator's runs that return
C13_FixtureWhenReturned ==
    (pc = "fixture" /\ out.status = "returned") => C13_ProfileEnum


StoredDigest == Get(loaded, "manifest_sha256")

\* the digest validate_manifest of this kind recomputes
Recomputed ==
    IF IsE2EDoc THEN sha256_bytes(e2e_canonical_manifest_bytes(loaded))
    ELSE sha256_bytes(fixture_canonical_manifest_bytes(loaded))

WellFormedDigest == isinstance_str(StoredDigest) /\ SHA256_RE_match(StoredDigest.s)

\* the entries with which the two validators report a digest that differs
MismatchMessages ==
    {"manifest_sha256 mismatch"}
    \cup (IF isinstance_str(StoredDigest)
          THEN {"manifest_sha256 mismatch: expected " \o Render(StoredDigest.s)
                \o ", got " \o Render(Recomputed)}
          ELSE {})

\* the entries with which they report a digest that is absent or malformed
MalformedMessages ==
    {"manifest_sha256 must be sha256 hex", "manifest_sha256 not sha256 hex",
     "manifest_sha256 must be string"}

SaysMismatch == \E i \in DOMAIN out.errors : out.errors[i] \in MismatchMessages
SaysMalformed == \E i \in DOMAIN out.errors : out.errors[i] \in MalformedMessages

\* C16 (as stated): the fixture and the end-to-end validator compare the stored
\* manifest_sha256 with the recomputed digest only when it is present and 64
\* lowercase hex characters; when it is absent or malformed the returned list
\* reports that and holds no manifest_sha256 mismatch.
C16_HashGating ==
    (pc \in {"fixture", "e2e"} /\ out.status = "returned") =>
        IF WellFormedDigest
        THEN ~SaysMalformed /\ (SaysMismatch <=> StoredDigest.s # Recomputed)
        ELSE SaysMalformed /\ ~SaysMismatch

\* the same, for the fixture validator alone
C16_FixtureHashGating ==
    (pc = "fixture" /\ out.status = "returned") =>
        IF WellFormedDigest
        THEN ~SaysMalformed /\ (SaysMismatch <=> StoredDigest.s # Recomputed)
        ELSE SaysMalformed /\ ~SaysMismatch

\* the end-to-end validator, whenever the stored value is a string, compares
C16_E2ECompares ==
    (pc = "e2e" /\ out.status = "returned") =>
        /\ SaysMismatch <=> (isinstance_str(StoredDigest) /\ StoredDigest.s # Recomputed)
        /\ SaysMalformed <=> ~WellFormedDigest

MessagesOf(q) == {q[i] : i \in DOMAIN q}

\* what the artifact and log verification of this kind reports for the manifest
ArtifactMessages ==
    IF IsE2EDoc
    THEN MessagesOf(E2ELogsCheck(loaded, mpath, files).errors)
         \cup MessagesOf(E2EArtifactsCheck(loaded, mpath, files).errors)
    ELSE MessagesOf(FixtureArtifactsCheck(loaded, mpath, files).errors)

\* what check_redaction reports for the items of source.command and source.paths
RedactionMessages ==
    LET source == Get(loaded, "source") IN
    IF IsE2EDoc \/ ~isinstance_dict(source) THEN {}
    ELSE UNION {MessagesOf(check_redaction(Get(source, key).c[idx].v.s,
                                        "source." \o key \o "[" \o ToString(idx - 1) \o "]")) :
                  <<key, idx>> \in {<<k, i>> \in {"command", "paths"} \X (1 .. 3) :
                                      /\ isinstance_list(Get(source, k))
                                      /\ i \in DOMAIN Get(source, k).c
                                      /\ isinstance_str(Get(source, k).c[i].v)}}

SchemaMessages == {"schema validation failed: <message>", "schema validation error: <exception>"}

\* the stage an entry of the returned list comes from: 1 schema validation,
\* 2 field validation, 3 self-hash comparison, 4 artifact and log verification,
\* 5 redaction scanning
StageOf(e) ==
    IF e \in SchemaMessages THEN 1
    ELSE IF e \in MismatchMessages \cup MalformedMessages THEN 3
    ELSE IF e \in ArtifactMessages THEN 4
    ELSE IF e \in RedactionMessages THEN 5
    ELSE 2

\* C17 (as stated): the list validate_manifest returns for a fixture or an
\* end-to-end manifest is ordered by stage: schema validation, field validation,
\* self-hash comparison, artifact and log verification, redaction scanning.
C17_PipelineOrder ==
    (pc \in {"fixture", "e2e"} /\ out.status = "returned") =>
        \A i, j \in DOMAIN out.errors :
            StageOf(out.errors[i]) < StageOf(out.errors[j]) => i < j

\* the order the fixture validator keeps: schema, field validation with the
\* redaction scan of source inside it, artifacts, and the self-hash comparison last
FixtureStageOf(e) ==
    IF e \in SchemaMessages THEN 1
    ELSE IF e \in MismatchMessages \cup MalformedMessages THEN 4
    ELSE IF e \in ArtifactMessages THEN 3
    ELSE 2

C17_FixtureOrder ==
    (pc = "fixture" /\ out.status = "returned") =>
        \A i, j \in DOMAIN out.errors :
            FixtureStageOf(out.errors[i]) < FixtureStageOf(out.errors[j]) => i < j

\* the end-to-end validator keeps the stated order (it scans nothing for redaction)
C17_E2EOrder ==
    (pc = "e2e" /\ out.status = "returned") =>
        \A i, j \in DOMAIN out.errors :
            StageOf(out.errors[i]) < StageOf(out.errors[j]) => i < j

====
